---- MODULE Spec2Model ----
(***************************************************************************)
(* Eligibility engine of the course planner (src/Courseplanner.py).        *)
(* A course code is a sequence of one-character strings, so that           *)
(* _normalize_code and sorted() act on characters as the Python code does. *)
(***************************************************************************)
EXTENDS Integers, Sequences, FiniteSets, TLC

(* ------------------------------------------------------------------ *)
(* Characters                                                          *)
(* ------------------------------------------------------------------ *)

\* The non-breaking space "\xa0", written as a token of its own.
NBSP == "xa0"

\* The feminine ordinal indicator "\xaa": str.islower() holds of it and
\* str.upper() leaves it as it is.
ORDF == "xaa"

\* The characters of the model in ascending code-point order (the order
\* Python compares str by): \t \n space, digits, A-Z, a-z, \xa0, \xaa.
CharOrder ==
  << "\t", "\n", " ",
     "0", "1", "2", "3", "4", "5", "6", "7", "8", "9",
     "A", "C", "H", "M", "P", "S", "T",
     "a", "c", "h", "m", "p", "s", "t",
     NBSP, ORDF >>

LowerLetters == << "a", "c", "h", "m", "p", "s", "t" >>
UpperLetters == << "A", "C", "H", "M", "P", "S", "T" >>

\* str.isspace() / regex \s on the characters of the model.
IsSpace(ch) == ch \in {" ", "\t", "\n", NBSP}

Ord(ch) == CHOOSE i \in 1..Len(CharOrder) : CharOrder[i] = ch

\* str.upper() on one character.
UpperChar(ch) ==
  IF \E i \in 1..Len(LowerLetters) : LowerLetters[i] = ch
  THEN UpperLetters[CHOOSE i \in 1..Len(LowerLetters) : LowerLetters[i] = ch]
  ELSE ch

(* ------------------------------------------------------------------ *)
(* _normalize_code                                                     *)
(* ------------------------------------------------------------------ *)

RECURSIVE LStrip(_)
LStrip(s) ==
  IF s = << >> THEN s
  ELSE IF IsSpace(Head(s)) THEN LStrip(Tail(s)) ELSE s

RECURSIVE RStrip(_)
RStrip(s) ==
  IF s = << >> THEN s
  ELSE IF IsSpace(s[Len(s)]) THEN RStrip(SubSeq(s, 1, Len(s) - 1)) ELSE s

\* s.strip()
Strip(s) == RStrip(LStrip(s))

\* s.upper()
Upper(s) == [i \in 1..Len(s) |-> UpperChar(s[i])]

\* s.replace("\xa0", " ")
ReplaceNbsp(s) == [i \in 1..Len(s) |-> IF s[i] = NBSP THEN " " ELSE s[i]]

\* A plausible slip: s.replace("  ", " "), which halves a run of spaces
\* instead of collapsing it.
RECURSIVE CollapseWsPairs(_)
CollapseWsPairs(s) ==
  IF Len(s) < 2 THEN s
  ELSE IF s[1] = " " /\ s[2] = " "
       THEN << " " >> \o CollapseWsPairs(SubSeq(s, 3, Len(s)))
       ELSE << s[1] >> \o CollapseWsPairs(Tail(s))

\* re.sub(r"\s+", " ", s): every maximal run of whitespace becomes one space.
RECURSIVE CollapseWs(_)
CollapseWs(s) ==
  IF s = << >> THEN s
  ELSE IF IsSpace(Head(s))
       THEN << " " >> \o CollapseWs(LStrip(Tail(s)))
       ELSE << Head(s) >> \o CollapseWs(Tail(s))

\* A plausible slip: normalization that forgets to upper-case.
normalize_code_noupper(s) == CollapseWs(ReplaceNbsp(Strip(s)))

normalize_code(s) == CollapseWs(ReplaceNbsp(Upper(Strip(s))))

(* ------------------------------------------------------------------ *)
(* sorted() on codes                                                   *)
(* ------------------------------------------------------------------ *)

RECURSIVE StrLess(_, _)
StrLess(a, b) ==
  IF b = << >> THEN FALSE
  ELSE IF a = << >> THEN TRUE
  ELSE IF Head(a) = Head(b) THEN StrLess(Tail(a), Tail(b))
  ELSE Ord(Head(a)) < Ord(Head(b))

MinCode(S) == CHOOSE a \in S : \A b \in S \ {a} : StrLess(a, b)

\* A plausible slip: the codes in no particular (here: descending) order.
RECURSIVE SortedDesc(_)
SortedDesc(S) ==
  IF S = {} THEN << >>
  ELSE LET m == MinCode(S) IN SortedDesc(S \ {m}) \o << m >>

\* sorted(planned)
RECURSIVE Sorted(_)
Sorted(S) ==
  IF S = {} THEN << >>
  ELSE LET m == MinCode(S) IN << m >> \o Sorted(S \ {m})

(* ------------------------------------------------------------------ *)
(* Course records and catalogs                                         *)
(* ------------------------------------------------------------------ *)

CMPSC131 == << "C", "M", "P", "S", "C", " ", "1", "3", "1" >>
CMPSC132 == << "C", "M", "P", "S", "C", " ", "1", "3", "2" >>
MATH140  == << "M", "A", "T", "H", " ", "1", "4", "0" >>
MATH141  == << "M", "A", "T", "H", " ", "1", "4", "1" >>

\* @dataclass Course (credits and description play no part in eligibility).
Course(code, name, prereq_groups, concurrent_groups) ==
  [ code |-> code, name |-> name,
    prereq_groups |-> prereq_groups, concurrent_groups |-> concurrent_groups ]

NameOf(code) == << "n" >> \o code

\* The catalog of the scenario in the specification, in the order given.
ScenarioCatalog ==
  << Course(CMPSC131, NameOf(CMPSC131), << >>, << >>),
     Course(CMPSC132, NameOf(CMPSC132), << {CMPSC131} >>, << >>),
     Course(MATH141,  NameOf(MATH141),  << >>, << {MATH140} >>),
     Course(MATH140,  NameOf(MATH140),  << >>, << >>) >>

\* The codes of the generated catalogs, in catalog (dict insertion) order.
PoolCodes == << CMPSC131, CMPSC132, MATH140 >>

\* Largest number of requirement groups in a generated catalog.
MaxGroups == 2

\* A requirement group is a non-empty set of codes (the scraper appends a
\* group only "if group:"); the generated ones have one or two members.
Groups == { g \in SUBSET { PoolCodes[i] : i \in 1..Len(PoolCodes) } :
              Cardinality(g) \in {1, 2} }

\* The catalog with no requirement at all: one record per code, the key of a
\* record being its code (catalog[_normalize_code(code)] = Course(code=...)).
BareCatalog ==
  [ i \in 1..Len(PoolCodes) |->
      Course(PoolCodes[i], NameOf(PoolCodes[i]), << >>, << >>) ]

\* target_list.append(group), target_list being prereq_groups or
\* concurrent_groups of the course at position i.
AppendGroup(cat, i, isPrereq, g) ==
  IF isPrereq
  THEN [cat EXCEPT ![i].prereq_groups = Append(@, g)]
  ELSE [cat EXCEPT ![i].concurrent_groups = Append(@, g)]

RECURSIVE CatalogsUpTo(_)
CatalogsUpTo(k) ==
  IF k = 0 THEN { BareCatalog }
  ELSE LET prev == CatalogsUpTo(k - 1) IN
       prev \cup { AppendGroup(cat, i, b, g) :
                     cat \in prev, i \in 1..Len(PoolCodes),
                     b \in BOOLEAN, g \in Groups }

Catalogs == CatalogsUpTo(MaxGroups) \cup { ScenarioCatalog }

\* Completed entries as a caller may pass them: canonical spellings and
\* spellings that differ in case, surrounding and inner whitespace and
\* non-breaking spaces.
Raw131 == << " ", "c", "m", "p", "s", "c", " ", " ", "1", "3", "1" >>
Raw132 == << NBSP, "C", "m", "p", "S", "c", NBSP, "\t", " ", "1", "3", "2", "\n" >>

RawEntries == { CMPSC131, Raw132, MATH140 }

\* The completed sets a call is made with: every set of entries, and one set
\* that holds two spellings of the same course.
CompletedInputs == (SUBSET RawEntries) \cup { { CMPSC131, Raw131 } }

\* The canonical code each raw entry is a spelling of.
CanonicalOf(raw) ==
  IF raw = Raw131 THEN CMPSC131
  ELSE IF raw = Raw132 THEN CMPSC132
  ELSE raw

(* ------------------------------------------------------------------ *)
(* available_courses as a state machine                                *)
(* ------------------------------------------------------------------ *)

VARIABLES
  catalog,       \* the catalog argument: records in dict order
  completed_in,  \* the completed argument, as the caller passed it
  completed,     \* the local, normalized completed set
  planned,       \* the local planned set
  added_any,     \* the flag of the current pass
  idx,           \* position of the for loop in catalog.values()
  passes,        \* number of passes of the while loop begun so far
  pass_start,    \* planned as it was when the current pass began
  result,        \* the returned list
  pc             \* "call", "while", "for", "return", "done"

\* The arguments and results of the other functions of the module, each
\* called on its own.
VARIABLES
  code_in,       \* the string passed to _normalize_code, course_level, node_level
  norm_out,      \* _normalize_code(code_in)
  norm_twice,    \* _normalize_code(norm_out)
  level_out,     \* [course_level, node_level] of code_in
  take_course,   \* the course passed to can_take_this_term
  can_out,       \* the value can_take_this_term returned
  query,         \* the query passed to find_course
  hits,          \* the list find_course returned
  root,          \* root_code of build_prereq_graph
  available,     \* the available argument of the graph builders
  max_depth,     \* max_depth of the graph builders
  max_nodes,     \* max_nodes of build_progression_graph
  nodes,         \* the node list a graph builder returned
  edges,         \* the edge list a graph builder returned
  member_order,  \* the order in which this run iterates over a set of codes
  seed,          \* build_progression_graph: completed and eligible codes
  seen,          \* build_progression_graph: the codes visited so far
  cur_frontier,  \* build_progression_graph: the current frontier
  rounds,        \* build_progression_graph: expansion rounds done
  json_dict,     \* the dict catalog_to_json_dict returned
  loaded,        \* the catalog catalog_from_json_dict returned
  completed_text,        \* the completed field of the web form
  goal_course,   \* the goal_course field of the web form
  goal_course_result,    \* the goal analysis the web form handler rendered
  api_request,   \* the JSON body and settings of the last /api/plan request
  api_response,  \* the response api_plan returned to it
  procs,         \* the locals of two concurrent available_courses calls
  chat_history_by_dept,  \* session["chat_history_by_dept"]
  conversation   \* every entry ever appended for a department

strVars   == << code_in, norm_out, norm_twice, level_out >>
takeVars  == << take_course, can_out >>
findVars  == << query, hits >>
graphVars == << root, available, max_depth, max_nodes, nodes, edges,
               member_order, seed, seen, cur_frontier, rounds >>
cacheVars == << json_dict, loaded >>
webVars   == << completed_text, goal_course, goal_course_result >>
apiVars   == << api_request, api_response >>
chatVars  == << chat_history_by_dept, conversation >>
lateVars  == << cacheVars, webVars, apiVars, procs, chatVars >>
earlyVars == << strVars, takeVars, findVars, graphVars >>
otherVars == << earlyVars, lateVars >>
availVars == << completed_in, completed, planned, added_any, idx,
                passes, pass_start, result >>

vars == << catalog, completed_in, completed, planned, added_any, idx,
           passes, pass_start, result, pc, otherVars >>

\* The variables of a function that is not the one being called.
IdleStr   == code_in = << >> /\ norm_out = << >> /\ norm_twice = << >>
             /\ level_out = << >>
IdleTake  == take_course = << >> /\ can_out = FALSE
IdleFind  == query = << >> /\ hits = << >>
IdleGraph == root = << >> /\ available = {} /\ max_depth = 0 /\ max_nodes = 0
             /\ nodes = << >> /\ edges = << >> /\ member_order = "asc"
             /\ seed = {} /\ seen = {} /\ cur_frontier = {} /\ rounds = 0
IdleAvail == completed_in = {} /\ completed = {} /\ planned = {}
IdleCache == json_dict = << >> /\ loaded = << >>
IdleWeb   == completed_text = << >> /\ goal_course = << >>
             /\ goal_course_result = [ found |-> FALSE ]
IdleApi   == api_request = << >> /\ api_response = [ status |-> 0 ]
IdleProcs == procs = << >>
IdleChat  == chat_history_by_dept = << >> /\ conversation = << >>
IdleLate  == IdleCache /\ IdleWeb /\ IdleApi /\ IdleProcs /\ IdleChat
             /\ added_any = FALSE /\ idx = 0 /\ passes = 0
             /\ pass_start = {} /\ result = << >>

CatalogCodes(cat) == { cat[i].code : i \in 1..Len(cat) }

\* catalog[code]
Lookup(cat, code) == cat[CHOOSE i \in 1..Len(cat) : cat[i].code = code]

\* A plausible slip: a requirement met as soon as one of its groups is
\* (OR of ORs instead of AND of ORs).
can_take_this_term_any_group(course, done, plan) ==
  /\ \/ course.prereq_groups = << >>
     \/ \E i \in 1..Len(course.prereq_groups) :
           course.prereq_groups[i] \cap done # {}
  /\ \/ course.concurrent_groups = << >>
     \/ \E i \in 1..Len(course.concurrent_groups) :
           course.concurrent_groups[i] \cap (done \cup plan) # {}

\* A plausible slip: prerequisites checked against completed and planned.
can_take_this_term_loose(course, done, plan) ==
  /\ \A i \in 1..Len(course.prereq_groups) :
        course.prereq_groups[i] \cap (done \cup plan) # {}
  /\ \A i \in 1..Len(course.concurrent_groups) :
        course.concurrent_groups[i] \cap (done \cup plan) # {}

\* A plausible slip: co-requisites checked against planned alone.
can_take_this_term_planned_only(course, done, plan) ==
  /\ \A i \in 1..Len(course.prereq_groups) :
        course.prereq_groups[i] \cap done # {}
  /\ \A i \in 1..Len(course.concurrent_groups) :
        course.concurrent_groups[i] \cap plan # {}

\* A plausible slip: the prerequisite test inverted ("if group & completed").
can_take_this_term_inverted(course, done, plan) ==
  /\ \A i \in 1..Len(course.prereq_groups) :
        course.prereq_groups[i] \cap done = {}
  /\ \A i \in 1..Len(course.concurrent_groups) :
        course.concurrent_groups[i] \cap (done \cup plan) # {}

can_take_this_term(course, done, plan) ==
  /\ \A i \in 1..Len(course.prereq_groups) :
        course.prereq_groups[i] \cap done # {}
  /\ \A i \in 1..Len(course.concurrent_groups) :
        course.concurrent_groups[i] \cap (done \cup plan) # {}

Init ==
  /\ catalog \in Catalogs
  /\ completed_in \in CompletedInputs
  /\ completed = {}
  /\ planned = {}
  /\ added_any = FALSE
  /\ idx = 0
  /\ passes = 0
  /\ pass_start = {}
  /\ result = << >>
  /\ pc = "call"
  /\ IdleStr /\ IdleTake /\ IdleFind /\ IdleGraph
  /\ IdleLate

\* completed = {_normalize_code(c) for c in completed}; planned = set()
Normalize ==
  /\ pc = "call"
  /\ completed' = { normalize_code(c) : c \in completed_in }
  /\ planned' = {}
  /\ pc' = "while"
  /\ UNCHANGED << catalog, completed_in, added_any, idx, passes, pass_start, result >>
  /\ UNCHANGED otherVars

\* while True: added_any = False; for course in catalog.values():
BeginPass ==
  /\ pc = "while"
  /\ passes <= Len(catalog) + 1
  /\ added_any' = FALSE
  /\ idx' = 1
  /\ passes' = passes + 1
  /\ pass_start' = planned
  /\ pc' = "for"
  /\ UNCHANGED << catalog, completed_in, completed, planned, result >>
  /\ UNCHANGED otherVars

\* A plausible slip: only "course.code in completed" is tested, so a course
\* already planned is added again on every pass.
AlreadyHaveCompletedOnly(course, done, plan) == course.code \in done

\* A plausible slip: only "course.code in planned" is tested, so a completed
\* course can be planned again.
AlreadyHavePlannedOnly(course, done, plan) == course.code \in plan

\* The test "course.code in completed or course.code in planned".
AlreadyHave(course, done, plan) == course.code \in done \/ course.code \in plan

\* The body of the for loop on one course; st is [planned, added_any].
visit(course, done, st) ==
  IF AlreadyHave(course, done, st.planned) THEN st
  ELSE IF can_take_this_term(course, done, st.planned)
       THEN [ planned |-> st.planned \cup { course.code }, added_any |-> TRUE ]
       ELSE st

\* One iteration of the for loop.
VisitCourse ==
  /\ pc = "for"
  /\ idx <= Len(catalog)
  /\ LET st == visit(catalog[idx], completed,
                     [ planned |-> planned, added_any |-> added_any ]) IN
       /\ planned' = st.planned
       /\ added_any' = st.added_any
  /\ idx' = idx + 1
  /\ UNCHANGED << catalog, completed_in, completed, passes, pass_start, result, pc >>
  /\ UNCHANGED otherVars

\* A plausible slip: the loop stops after its first pass.
LoopStopsOnePass(flag) == TRUE

\* if not added_any: break
LoopStops(flag) == ~flag

EndPass ==
  /\ pc = "for"
  /\ idx > Len(catalog)
  /\ pc' = IF LoopStops(added_any) THEN "return" ELSE "while"
  /\ UNCHANGED << catalog, completed_in, completed, planned, added_any, idx,
                  passes, pass_start, result >>
  /\ UNCHANGED otherVars

\* return [catalog[code] for code in sorted(planned)]
Return ==
  /\ pc = "return"
  /\ result' = LET codes == Sorted(planned) IN
               [ i \in 1..Len(codes) |-> Lookup(catalog, codes[i]) ]
  /\ pc' = "done"
  /\ UNCHANGED << catalog, completed_in, completed, planned, added_any, idx,
                  passes, pass_start >>
  /\ UNCHANGED otherVars

Next == Normalize \/ BeginPass \/ VisitCourse \/ EndPass \/ Return

Spec == Init /\ [][Next]_vars

(* ------------------------------------------------------------------ *)
(* available_courses as a function of its arguments                    *)
(* ------------------------------------------------------------------ *)

\* The for loop from position i on.
RECURSIVE run_pass(_, _, _, _)
run_pass(cat, done, st, i) ==
  IF i > Len(cat) THEN st
  ELSE run_pass(cat, done, visit(cat[i], done, st), i + 1)

\* The while loop, entered with the given planned set.
RECURSIVE run_loop(_, _, _)
run_loop(cat, done, plan) ==
  LET st == run_pass(cat, done, [ planned |-> plan, added_any |-> FALSE ], 1) IN
    IF LoopStops(st.added_any) THEN st.planned
    ELSE run_loop(cat, done, st.planned)

available_courses(cat, comp) ==
  LET done  == { normalize_code(c) : c \in comp }
      codes == Sorted(run_loop(cat, done, {}))
  IN  [ i \in 1..Len(codes) |-> Lookup(cat, codes[i]) ]

(* ------------------------------------------------------------------ *)
(* Properties                                                          *)
(* ------------------------------------------------------------------ *)

\* The completed courses by their canonical codes, read off the entries.
CanonCompleted == { CanonicalOf(c) : c \in completed_in }

CanonOf(comp) == { CanonicalOf(c) : c \in comp }

CodesOf(list) == { list[i].code : i \in 1..Len(list) }

ResultCodes == CodesOf(result)

\* AND-of-ORs: every group has a member in S.
GroupsMet(groups, S) == \A i \in 1..Len(groups) : groups[i] \cap S # {}

\* The state machine and the function agree on every input.
ResultIsAvailableCourses ==
  pc = "done" => result = available_courses(catalog, completed_in)

\* C1: every returned course is not completed, has every prerequisite group
\* intersecting completed and every co-requisite group intersecting
\* completed \cup returned; a prerequisite is never met by a returned course.
Thm_C1 ==
  pc = "done" =>
    \A i \in 1..Len(result) :
      /\ result[i].code \notin CanonCompleted
      /\ GroupsMet(result[i].prereq_groups, CanonCompleted)
      /\ GroupsMet(result[i].concurrent_groups, CanonCompleted \cup ResultCodes)

\* A returned course whose co-requisite is met only by a returned course, and
\* a course left out because its prerequisite is returned but not completed.
Wit_C1 ==
  /\ pc = "done"
  /\ \E i \in 1..Len(result) : \E k \in 1..Len(result[i].concurrent_groups) :
       /\ result[i].concurrent_groups[k] \cap CanonCompleted = {}
       /\ result[i].concurrent_groups[k] \cap ResultCodes # {}
  /\ \E j \in 1..Len(catalog) : \E k \in 1..Len(catalog[j].prereq_groups) :
       /\ catalog[j].code \notin ResultCodes
       /\ catalog[j].prereq_groups[k] \cap CanonCompleted = {}
       /\ catalog[j].prereq_groups[k] \cap ResultCodes # {}

\* C2: when the loop stops, planned is a fixed point: no catalog course
\* outside completed \cup planned has its prerequisites met by completed and
\* its co-requisites met by completed \cup planned.
Thm_C2 ==
  pc = "return" =>
    ~ \E i \in 1..Len(catalog) :
        /\ catalog[i].code \notin completed \cup planned
        /\ GroupsMet(catalog[i].prereq_groups, completed)
        /\ GroupsMet(catalog[i].concurrent_groups, completed \cup planned)

\* The loop stopped after at least three passes and left a course out.
Wit_C2 ==
  /\ pc = "return"
  /\ passes >= 3
  /\ \E i \in 1..Len(catalog) : catalog[i].code \notin completed \cup planned

\* C3 as stated: no catalog course outside the returned list has its
\* prerequisites met by completed and its co-requisites met by
\* completed \cup returned.
Orig_C3 ==
  pc = "done" =>
    ~ \E i \in 1..Len(catalog) :
        /\ catalog[i].code \notin ResultCodes
        /\ GroupsMet(catalog[i].prereq_groups, CanonCompleted)
        /\ GroupsMet(catalog[i].concurrent_groups, CanonCompleted \cup ResultCodes)

\* C3 amended: no catalog course outside the returned list and outside
\* completed has its prerequisites met by completed and its co-requisites
\* met by completed \cup returned.
Thm_C3 ==
  pc = "done" =>
    ~ \E i \in 1..Len(catalog) :
        /\ \A j \in 1..Len(result) : result[j] # catalog[i]
        /\ catalog[i].code \notin CanonCompleted
        /\ GroupsMet(catalog[i].prereq_groups, CanonCompleted)
        /\ GroupsMet(catalog[i].concurrent_groups, CanonCompleted \cup ResultCodes)

\* A completed course with all requirements met stays outside the list, next
\* to a course that is left out for an unmet requirement.
Wit_C3 ==
  /\ pc = "done"
  /\ \E i \in 1..Len(catalog) :
       /\ catalog[i].code \in CanonCompleted
       /\ GroupsMet(catalog[i].prereq_groups, CanonCompleted)
       /\ GroupsMet(catalog[i].concurrent_groups, CanonCompleted \cup ResultCodes)
  /\ \E i \in 1..Len(catalog) :
       catalog[i].code \notin CanonCompleted \cup ResultCodes
  /\ result # << >>

\* The largest set S of not-completed catalog courses in which every member
\* has its prerequisites met by comp and its co-requisites by comp \cup S.
MaxRegistrable(cat, comp) ==
  UNION { S \in SUBSET (CatalogCodes(cat) \ comp) :
            \A code \in S :
              /\ GroupsMet(Lookup(cat, code).prereq_groups, comp)
              /\ GroupsMet(Lookup(cat, code).concurrent_groups, comp \cup S) }

\* C4: the returned codes are the largest set of courses registrable in one
\* term allowing mutual co-registration.
Orig_C4 ==
  pc = "done" => ResultCodes = MaxRegistrable(catalog, CanonCompleted)

\* C5: planned never shrinks, every pass that does not end the loop added a
\* new code, and there are at most (number of catalog courses) + 1 passes.
Thm_C5 ==
  /\ [](/\ passes <= Len(catalog) + 1
        /\ pass_start \subseteq planned
        /\ Cardinality(planned) >= passes - 1
        /\ (pc = "for" /\ idx > Len(catalog) /\ added_any) => pass_start # planned
        /\ (pc = "while" /\ passes >= 1) => pass_start # planned
        /\ pc \in {"return", "done"} => pass_start = planned)
  /\ [][planned \subseteq planned']_vars

\* The worst case: a run of (number of catalog courses) + 1 passes.
Wit_C5 ==
  /\ pc = "done"
  /\ passes = Len(catalog) + 1
  /\ Len(catalog) >= 3

ScenarioCodes(list) == [ i \in 1..Len(list) |-> list[i].code ]

\* C6: for the scenario catalog and completed = {}, the result is exactly
\* [CMPSC 131, MATH 140, MATH 141].
Thm_C6 ==
  (pc = "done" /\ catalog = ScenarioCatalog /\ completed_in = {}) =>
    ScenarioCodes(result) = << CMPSC131, MATH140, MATH141 >>

Wit_C6 ==
  /\ pc = "done" /\ catalog = ScenarioCatalog /\ completed_in = {}
  /\ passes = 3
  /\ CMPSC132 \notin ResultCodes

\* C7 as stated: with completed = {CMPSC 131} the result holds CMPSC 132 and
\* every course of the result for completed = {}.
Orig_C7 ==
  (pc = "done" /\ catalog = ScenarioCatalog /\ completed_in = { CMPSC131 }) =>
    { CMPSC132 } \cup CodesOf(available_courses(ScenarioCatalog, {}))
       \subseteq ResultCodes

\* C7 amended: with completed = {CMPSC 131} the result holds CMPSC 132 and
\* every course of the result for completed = {} except the completed
\* CMPSC 131, and nothing else.
Thm_C7 ==
  (pc = "done" /\ catalog = ScenarioCatalog /\ completed_in = { CMPSC131 }) =>
    ResultCodes =
      { CMPSC132 } \cup
      (CodesOf(available_courses(ScenarioCatalog, {})) \ { CMPSC131 })

Wit_C7 ==
  /\ pc = "done" /\ catalog = ScenarioCatalog /\ completed_in = { CMPSC131 }
  /\ CMPSC132 \in ResultCodes
  /\ CMPSC131 \notin ResultCodes

\* C8: the returned list is strictly ascending by code, each element is the
\* catalog record stored under its code, and no element is completed.
Thm_C8 ==
  pc = "done" =>
    /\ \A i \in 1..(Len(result) - 1) : StrLess(result[i].code, result[i + 1].code)
    /\ \A i \in 1..Len(result) :
         /\ \E j \in 1..Len(catalog) : catalog[j] = result[i]
         /\ result[i].code \notin CanonCompleted

\* A list of at least two records, returned while a catalog course is
\* completed.
Wit_C8 ==
  /\ pc = "done"
  /\ Len(result) >= 2
  /\ CanonCompleted \cap CatalogCodes(catalog) # {}

\* C9: for completed sets A \subseteq B, every course returned for A is in B
\* or is returned for B.
Thm_C9 ==
  pc = "done" =>
    \A B \in CompletedInputs :
      completed_in \subseteq B =>
        ResultCodes \subseteq
          CanonOf(B) \cup CodesOf(available_courses(catalog, B))

\* A larger completed set that completes a returned course and unlocks a
\* course not returned before.
Wit_C9 ==
  /\ pc = "done"
  /\ \E B \in CompletedInputs :
       /\ completed_in \subseteq B
       /\ ResultCodes \cap CanonOf(B) # {}
       /\ ResultCodes \ CanonOf(B) # {}
       /\ CodesOf(available_courses(catalog, B)) \ ResultCodes # {}

\* C10: the result equals the result for the set of normalized entries, and
\* the result for the canonical spellings of the entries.
Thm_C10 ==
  pc = "done" =>
    /\ result = available_courses(catalog,
                                  { normalize_code(c) : c \in completed_in })
    /\ result = available_courses(catalog, CanonCompleted)

\* An entry in a non-canonical spelling that changes the result.
Wit_C10 ==
  /\ pc = "done"
  /\ completed_in \cap { Raw131, Raw132 } # {}
  /\ CanonCompleted \cap completed_in = {}
  /\ result # available_courses(catalog, {})

(* ------------------------------------------------------------------ *)
(* _normalize_code called on its own                                   *)
(* ------------------------------------------------------------------ *)

\* Longest generated input string.
MaxStrLen == 5

Alphabet == { " ", "\t", NBSP, "c", "1", ORDF }

RECURSIVE StringsUpTo(_)
StringsUpTo(n) ==
  IF n = 0 THEN { << >> }
  ELSE LET prev == StringsUpTo(n - 1) IN
       prev \cup { Append(x, ch) : x \in prev, ch \in Alphabet }

\* The spellings named in the docstring of _normalize_code.
NoSpace131 == << "c", "m", "p", "s", "c", "1", "3", "1" >>
Lower131H  == << "c", "m", "p", "s", "c", " ", "1", "3", "1", "h" >>

NormalizeInputs ==
  StringsUpTo(MaxStrLen) \cup { NoSpace131, CMPSC131, Lower131H, Raw131, Raw132 }

InitNormalize ==
  /\ code_in \in NormalizeInputs
  /\ norm_out = << >> /\ norm_twice = << >> /\ level_out = << >>
  /\ catalog = << >>
  /\ pc = "normalize"
  /\ IdleAvail /\ IdleTake /\ IdleFind /\ IdleGraph
  /\ IdleLate

\* _normalize_code(code_in)
NormalizeCode ==
  /\ pc = "normalize"
  /\ norm_out' = normalize_code(code_in)
  /\ pc' = "normalize_again"
  /\ UNCHANGED << lateVars, catalog, availVars, code_in, norm_twice, level_out,
                  takeVars, findVars, graphVars >>

\* _normalize_code applied to its own result
NormalizeAgain ==
  /\ pc = "normalize_again"
  /\ norm_twice' = normalize_code(norm_out)
  /\ pc' = "normalized"
  /\ UNCHANGED << lateVars, catalog, availVars, code_in, norm_out, level_out,
                  takeVars, findVars, graphVars >>

NextNormalize == NormalizeCode \/ NormalizeAgain

SpecNormalize == InitNormalize /\ [][NextNormalize]_vars

\* str.islower() on one character of the model.
IsLowerChar(ch) ==
  ch = ORDF \/ \E i \in 1..Len(LowerLetters) : LowerLetters[i] = ch

CharsOf(x) == { x[i] : i \in 1..Len(x) }

NoOuterSpace(x) == x = << >> \/ (~IsSpace(x[1]) /\ ~IsSpace(x[Len(x)]))

NoSpaceRun(x) == \A i \in 1..(Len(x) - 1) : ~(x[i] = " " /\ x[i + 1] = " ")

\* C11 as stated: normalization is idempotent and its result has no outer
\* whitespace, no run of spaces, no non-breaking space, no lowercase letter.
Orig_C11 ==
  pc = "normalized" =>
    /\ norm_twice = norm_out
    /\ NoOuterSpace(norm_out)
    /\ NoSpaceRun(norm_out)
    /\ NBSP \notin CharsOf(norm_out)
    /\ \A ch \in CharsOf(norm_out) : ~IsLowerChar(ch)

\* C11 amended: normalization is idempotent and its result has no outer
\* whitespace, no run of spaces, no non-breaking space and no lowercase
\* letter that has an uppercase form.
Thm_C11 ==
  pc = "normalized" =>
    /\ norm_twice = norm_out
    /\ NoOuterSpace(norm_out)
    /\ NoSpaceRun(norm_out)
    /\ NBSP \notin CharsOf(norm_out)
    /\ \A ch \in CharsOf(norm_out) : UpperChar(ch) = ch

\* An input with outer whitespace, an inner run of three whitespace
\* characters, a non-breaking space and a lowercase letter.
Wit_C11 ==
  /\ pc = "normalized"
  /\ Len(code_in) = 5
  /\ ~IsSpace(code_in[1]) /\ ~IsSpace(code_in[5])
  /\ IsSpace(code_in[2]) /\ IsSpace(code_in[3]) /\ IsSpace(code_in[4])
  /\ NBSP \in CharsOf(code_in)
  /\ "c" \in CharsOf(code_in)
  /\ Len(norm_out) = 3

\* C12: a code typed without a space ("cmpsc131") is normalized to the
\* canonical form "CMPSC 131", the same as the spaced spelling.
Orig_C12 ==
  (pc = "normalized" /\ code_in = NoSpace131) => norm_out = CMPSC131


\* ---------------------------------------------------------------------
\* can_take_this_term called on its own
\* ---------------------------------------------------------------------

PoolSet == { PoolCodes[i] : i \in 1..Len(PoolCodes) }

\* The sequences of at most n requirement groups.
RECURSIVE GroupSeqsUpTo(_)
GroupSeqsUpTo(n) ==
  IF n = 0 THEN { << >> }
  ELSE LET prev == GroupSeqsUpTo(n - 1) IN
       prev \cup { Append(gs, g) : gs \in prev, g \in Groups }

\* The courses a call is made with: at most MaxGroups groups in all.
TakeCourses ==
  { Course(MATH141, NameOf(MATH141), pg, cg) :
      pg \in GroupSeqsUpTo(MaxGroups), cg \in GroupSeqsUpTo(MaxGroups) }

InitCanTake ==
  /\ take_course \in { c \in TakeCourses :
         Len(c.prereq_groups) + Len(c.concurrent_groups) <= MaxGroups }
  /\ completed \in SUBSET PoolSet
  /\ planned \in SUBSET PoolSet
  /\ can_out = FALSE
  /\ catalog = << >>
  /\ completed_in = {} /\ added_any = FALSE /\ idx = 0 /\ passes = 0
  /\ pass_start = {} /\ result = << >>
  /\ pc = "can_take"
  /\ IdleStr /\ IdleFind /\ IdleGraph
  /\ IdleLate

\* can_take_this_term(take_course, completed, planned)
CanTakeCall ==
  /\ pc = "can_take"
  /\ can_out' = can_take_this_term(take_course, completed, planned)
  /\ pc' = "can_take_done"
  /\ UNCHANGED << lateVars, catalog, availVars, take_course, strVars, findVars,
                  graphVars >>

NextCanTake == CanTakeCall

SpecCanTake == InitCanTake /\ [][NextCanTake]_vars

\* A group none of whose members is in S.
Unmet(group, S) == \A m \in group : m \notin S

\* C13: can_take_this_term is true iff every prerequisite group has a member
\* in completed and every co-requisite group has a member in completed or in
\* planned (so false exactly when some group has none); with no group at all
\* it is true; prerequisite groups [{A,B}] are satisfied by completed {A},
\* and [{A,B},{C}] are not.
Thm_C13 ==
  pc = "can_take_done" =>
    /\ can_out = ~( \/ \E i \in 1..Len(take_course.prereq_groups) :
                          Unmet(take_course.prereq_groups[i], completed)
                    \/ \E i \in 1..Len(take_course.concurrent_groups) :
                          /\ Unmet(take_course.concurrent_groups[i], completed)
                          /\ Unmet(take_course.concurrent_groups[i], planned) )
    /\ (take_course.prereq_groups = << >>
        /\ take_course.concurrent_groups = << >>) => can_out
    /\ (take_course.prereq_groups = << {CMPSC131, CMPSC132} >>
        /\ take_course.concurrent_groups = << >>
        /\ completed = {CMPSC131}) => can_out
    /\ (take_course.prereq_groups = << {CMPSC131, CMPSC132}, {MATH140} >>
        /\ completed = {CMPSC131}) => ~can_out

\* A course with one prerequisite group met by completed and one co-requisite
\* group met by planned alone is found takeable.
Wit_C13 ==
  /\ pc = "can_take_done"
  /\ Len(take_course.prereq_groups) = 1
  /\ Len(take_course.concurrent_groups) = 1
  /\ take_course.prereq_groups[1] \cap completed # {}
  /\ take_course.concurrent_groups[1] \cap completed = {}
  /\ take_course.concurrent_groups[1] \cap planned # {}
  /\ can_out


\* ---------------------------------------------------------------------
\* find_course
\* ---------------------------------------------------------------------

Digits == { "0", "1", "2", "3", "4", "5", "6", "7", "8", "9" }

\* str.lower() on one character, and on a string.
LowerChar(ch) ==
  IF \E i \in 1..Len(UpperLetters) : UpperLetters[i] = ch
  THEN LowerLetters[CHOOSE i \in 1..Len(UpperLetters) : UpperLetters[i] = ch]
  ELSE ch

Lower(s) == [i \in 1..Len(s) |-> LowerChar(s[i])]

\* regex [A-Z] and \w on the characters of the model.
IsUpperAZ(ch) == \E i \in 1..Len(UpperLetters) : UpperLetters[i] = ch

IsWordChar(ch) ==
  \/ ch \in Digits
  \/ IsUpperAZ(ch)
  \/ \E i \in 1..Len(LowerLetters) : LowerLetters[i] = ch
  \/ ch = ORDF

\* regex \b at the gap after position j of s (j = 0: before the first
\* character): exactly one side of the gap is a word character.
WordBoundary(s, j) ==
  LET before == j >= 1 /\ IsWordChar(s[j])
      after  == j < Len(s) /\ IsWordChar(s[j + 1])
  IN  before # after

\* re.fullmatch(r"(\d{3})", q)
FullMatch3Digits(q) == Len(q) = 3 /\ \A i \in 1..3 : q[i] \in Digits

\* A plausible slip: the pattern without the optional suffix letter.
NumSearchNoSuffix(num, code) ==
  \E i \in 1..(Len(code) - 2) :
    /\ SubSeq(code, i, i + 2) = num
    /\ WordBoundary(code, i - 1)
    /\ WordBoundary(code, i + 2)

\* re.search(rf"\b{num}[A-Z]?\b", code)
NumSearch(num, code) ==
  \E i \in 1..(Len(code) - 2) :
    /\ SubSeq(code, i, i + 2) = num
    /\ WordBoundary(code, i - 1)
    /\ \/ /\ i + 3 <= Len(code)
          /\ IsUpperAZ(code[i + 3])
          /\ WordBoundary(code, i + 3)
       \/ WordBoundary(code, i + 2)

\* sub in s
Contains(sub, s) ==
  \E i \in 0..(Len(s) - Len(sub)) : SubSeq(s, i + 1, i + Len(sub)) = sub

\* sorted(hits, key=lambda x: x.code), hits being courses of cat
SortedByCode(cat, hitCodes) ==
  LET order == Sorted(hitCodes)
  IN  [ i \in 1..Len(order) |-> Lookup(cat, order[i]) ]

\* A plausible slip: the exact-code rule left out.
ExactMatchNever(cat, q_norm) == FALSE

\* q_norm in catalog
ExactMatch(cat, q_norm) == q_norm \in CatalogCodes(cat)

find_course(cat, q) ==
  LET qs == Strip(q) IN
  IF qs = << >> THEN << >>
  ELSE
    LET q_norm == normalize_code(qs) IN
    IF ExactMatch(cat, q_norm) THEN << Lookup(cat, q_norm) >>
    ELSE IF FullMatch3Digits(Strip(qs))
    THEN SortedByCode(cat, { cat[i].code : i \in
                               { j \in 1..Len(cat) : NumSearch(qs, cat[j].code) } })
    ELSE
      LET q_lower == Lower(qs) IN
      SortedByCode(cat, { cat[i].code : i \in
                            { j \in 1..Len(cat) :
                                \/ Contains(q_lower, Lower(cat[j].name))
                                \/ Contains(q_lower, Lower(cat[j].code)) } })

\* The courses of the catalogs find_course is called on, in dict order
\* (not sorted): two departments, a suffixed number, a two-digit number.
CMPSC131H == CMPSC131 \o << "H" >>
MATH131   == << "M", "A", "T", "H", " ", "1", "3", "1" >>
MATH13    == << "M", "A", "T", "H", " ", "1", "3" >>

FindPool ==
  << Course(CMPSC132,  << "S", "t", "a", "t", "s" >>, << >>, << >>),
     Course(MATH131,   << "P", "a", "t", "h", "s" >>, << >>, << >>),
     Course(CMPSC131H, << "M", "a", "p", "s" >>, << >>, << >>),
     Course(MATH13,    << "C", "a", "m", "p", "s" >>, << >>, << >>),
     Course(CMPSC131,  << "C", "h", "a", "t", "s" >>, << >>, << >>) >>

\* The sub-sequence of seq at the positions in keep.
RECURSIVE Restrict(_, _)
Restrict(seq, keep) ==
  IF seq = << >> THEN << >>
  ELSE LET rest == Restrict(Tail(seq), { k - 1 : k \in keep \ {1} })
       IN  IF 1 \in keep THEN << Head(seq) >> \o rest ELSE rest

FindCatalogs == { Restrict(FindPool, keep) : keep \in SUBSET (1..Len(FindPool)) }

FindQueries ==
  { << >>,
    << " ", NBSP, "\t" >>,
    << "1", "3", "1" >>,
    << " ", "1", "3", "1", NBSP >>,
    << "1", "3", "2" >>,
    << "1", "4", "0" >>,
    << "0", "1", "3" >>,
    << "1", "3" >>,
    << "3", "1", "H" >>,
    << "1", "3", "1", "h" >>,
    << "c", "m", "p", "s", "c", " ", "1", "3", "1" >>,
    << "C", "M", "P", "S", "C", NBSP, " ", "1", "3", "1" >>,
    << "m", "a", "t", "h", " ", "1", "3" >>,
    NoSpace131,
    << "M", "A" >>,
    << "a", "t", "h", "s" >>,
    << "c", " ", "1" >> }

InitFind ==
  /\ catalog \in FindCatalogs
  /\ query \in FindQueries
  /\ hits = << >>
  /\ pc = "find"
  /\ IdleAvail /\ IdleStr /\ IdleTake /\ IdleGraph
  /\ IdleLate

\* find_course(catalog, query)
FindCourse ==
  /\ pc = "find"
  /\ hits' = find_course(catalog, query)
  /\ pc' = "found"
  /\ UNCHANGED << lateVars, catalog, availVars, query, strVars, takeVars, graphVars >>

NextFind == FindCourse

SpecFind == InitFind /\ [][NextFind]_vars

HitCodes == { hits[i].code : i \in 1..Len(hits) }

Blank(q) == \A i \in 1..Len(q) : IsSpace(q[i])

\* The digits of a catalog code "DEPT NUM" or "DEPT NUMX": what follows the
\* space, less a final letter.
CodeNumber(code) ==
  LET k    == CHOOSE i \in 1..Len(code) : code[i] = " "
      rest == SubSeq(code, k + 1, Len(code))
  IN  IF rest[Len(rest)] \in Digits THEN rest
      ELSE SubSeq(rest, 1, Len(rest) - 1)

\* C14: a blank query returns the empty list; otherwise a query whose
\* normalized form is a catalog key returns that one course and nothing else,
\* whatever other courses match by number or by substring; every returned
\* course of a query without exact match matches by number or by substring.
Thm_C14 ==
  pc = "found" =>
    /\ Blank(query) => hits = << >>
    /\ \A i \in 1..Len(catalog) :
         (~Blank(query) /\ catalog[i].code = normalize_code(query))
            => hits = << catalog[i] >>
    /\ (~Blank(query) /\ normalize_code(query) \notin CatalogCodes(catalog))
         => \A i \in 1..Len(hits) :
              \/ CodeNumber(hits[i].code) = Strip(query)
              \/ Contains(Lower(Strip(query)), Lower(hits[i].code))
              \/ Contains(Lower(Strip(query)), Lower(hits[i].name))

\* An exact match returned alone while another course matches the query as
\* a substring of its code.
Wit_C14 ==
  /\ pc = "found"
  /\ Len(hits) = 1
  /\ hits[1].code = CMPSC131
  /\ query # CMPSC131
  /\ CMPSC131H \in CatalogCodes(catalog)
  /\ Contains(Lower(Strip(query)), Lower(CMPSC131H))

\* C15: for a bare 3-digit query that is no catalog key, the hits are
\* exactly the courses whose code number is the query (with or without a
\* suffix letter), in ascending order of code; "131" on a catalog of
\* CMPSC 131 and CMPSC 132 returns [CMPSC 131].
Thm_C15 ==
  (/\ pc = "found"
   /\ FullMatch3Digits(Strip(query))
   /\ normalize_code(query) \notin CatalogCodes(catalog))
  =>
    /\ HitCodes = { c \in CatalogCodes(catalog) : CodeNumber(c) = Strip(query) }
    /\ \A i \in 1..Len(hits) : hits[i] = Lookup(catalog, hits[i].code)
    /\ \A i, j \in 1..Len(hits) :
         i < j => StrLess(hits[i].code, hits[j].code)
    /\ (CatalogCodes(catalog) = {CMPSC131, CMPSC132}
        /\ Strip(query) = << "1", "3", "1" >>)
         => ScenarioCodes(hits) = << CMPSC131 >>

\* A number query answered with three courses, one with a suffix, while the
\* catalog holds courses of other numbers.
Wit_C15 ==
  /\ pc = "found"
  /\ query = << " ", "1", "3", "1", NBSP >>
  /\ ScenarioCodes(hits) = << CMPSC131, CMPSC131H, MATH131 >>
  /\ CMPSC132 \in CatalogCodes(catalog)
  /\ MATH13 \in CatalogCodes(catalog)


\* ---------------------------------------------------------------------
\* course_level and node_level
\* ---------------------------------------------------------------------

\* Python's None as course_level returns it: a value that is no level.
None == -1

\* int() of one digit, and of a string of digits.
DigitVal(ch) == Ord(ch) - Ord("0")

RECURSIVE IntOf(_)
IntOf(ds) ==
  IF ds = << >> THEN 0
  ELSE 10 * IntOf(SubSeq(ds, 1, Len(ds) - 1)) + DigitVal(ds[Len(ds)])

\* The pattern \b(\d{3})[A-Z]?\b matches at position i of code.
LevelMatchAt(code, i) ==
  /\ i + 2 <= Len(code)
  /\ \A k \in i..(i + 2) : code[k] \in Digits
  /\ WordBoundary(code, i - 1)
  /\ \/ /\ i + 3 <= Len(code)
        /\ IsUpperAZ(code[i + 3])
        /\ WordBoundary(code, i + 3)
     \/ WordBoundary(code, i + 2)

\* m = re.search(...); None if not m; (int(m.group(1)) // 100) * 100
course_level(code) ==
  LET at == { i \in 1..Len(code) : LevelMatchAt(code, i) } IN
  IF at = {} THEN None
  ELSE LET i == CHOOSE j \in at : \A k \in at : j <= k
       IN  (IntOf(SubSeq(code, i, i + 2)) \div 100) * 100

\* lvl = course_level(code); 0 if lvl is None; 400 if lvl >= 400 else lvl
node_level(code) ==
  LET lvl == course_level(code) IN
  IF lvl = None THEN 0
  ELSE IF lvl >= 400 THEN 400 ELSE lvl

\* Longest number in a generated code.
MaxDigits == 3

LevelDigits == { "0", "1", "3", "4", "9" }

RECURSIVE DigitStrings(_)
DigitStrings(n) ==
  IF n = 0 THEN { << >> }
  ELSE LET prev == DigitStrings(n - 1) IN
       prev \cup { Append(d, ch) : d \in prev, ch \in LevelDigits }

\* Codes as COURSE_REGEX admits them, [A-Z]{2,5}\s*\d{2,3}[A-Z]?, and around:
\* with and without the space, with a lowercase suffix, with one digit or
\* none, with more digits than three.
LevelInputs ==
  { dept \o sep \o num \o suffix :
      dept \in { << "C", "M", "P", "S", "C" >>, << "M", "A", "T", "H" >> },
      sep \in { << " " >>, << >> },
      num \in DigitStrings(MaxDigits),
      suffix \in { << >>, << "H" >>, << "h" >> } }

InitLevel ==
  /\ code_in \in LevelInputs
  /\ norm_out = << >> /\ norm_twice = << >> /\ level_out = << >>
  /\ catalog = << >>
  /\ pc = "level"
  /\ IdleAvail /\ IdleTake /\ IdleFind /\ IdleGraph
  /\ IdleLate

\* course_level(code_in) and node_level(code_in)
LevelCall ==
  /\ pc = "level"
  /\ level_out' = << course_level(code_in), node_level(code_in) >>
  /\ pc' = "levelled"
  /\ UNCHANGED << lateVars, catalog, availVars, code_in, norm_out, norm_twice,
                  takeVars, findVars, graphVars >>

NextLevel == LevelCall

SpecLevel == InitLevel /\ [][NextLevel]_vars

\* The numeric part of a code: its digits, in order.
NumericPart(code) == SelectSeq(code, LAMBDA ch : ch \in Digits)

Clamped(lvl) == IF lvl >= 400 THEN 400 ELSE lvl

\* C20: for a code whose numeric part n has 2 or 3 digits course_level is
\* (n // 100) * 100 and node_level is that value clamped to 400; a code with
\* no numeric part gets node level 0; node_level is one of 0, 100, 200, 300
\* and 400.
Orig_C20 ==
  pc = "levelled" =>
    LET n == NumericPart(code_in) IN
    /\ Len(n) \in {2, 3} =>
         /\ level_out[1] = (IntOf(n) \div 100) * 100
         /\ level_out[2] = Clamped((IntOf(n) \div 100) * 100)
    /\ Len(n) = 0 => level_out[2] = 0
    /\ level_out[2] \in {0, 100, 200, 300, 400}


\* ---------------------------------------------------------------------
\* build_prereq_graph and build_future_graph
\* ---------------------------------------------------------------------

RECURSIVE Reverse(_)
Reverse(seq) ==
  IF seq = << >> THEN << >> ELSE Append(Reverse(Tail(seq)), Head(seq))

\* "for x in S" over a set of strings: the order is not fixed by the
\* language; a run iterates in ascending or in descending order.
Iterate(S, order) == IF order = "asc" THEN Sorted(S) ELSE Reverse(Sorted(S))

\* {norm(c) for c in codes}
NormSet(codes) == { normalize_code(c) : c \in codes }

NodeIds(nodeList) == { nodeList[i].id : i \in 1..Len(nodeList) }

\* label = c.code if code_n in catalog else code_n
NodeLabel(cat, code_n) ==
  IF code_n \in CatalogCodes(cat) THEN Lookup(cat, code_n).code ELSE code_n

\* A plausible slip: the available test made before the completed test.
prereq_status_available_first(ctx, code_n) ==
  IF code_n = ctx.root THEN "target"
  ELSE IF code_n \in ctx.available THEN "available"
  ELSE IF code_n \in ctx.completed THEN "completed"
  ELSE "locked"

\* The if / elif chain of build_prereq_graph.add_node.
prereq_status(ctx, code_n) ==
  IF code_n = ctx.root THEN "target"
  ELSE IF code_n \in ctx.completed THEN "completed"
  ELSE IF code_n \in ctx.available THEN "available"
  ELSE "locked"

\* The if / elif chain of build_future_graph.add_node.
future_status(ctx, code_n) ==
  IF code_n \in ctx.completed THEN "completed"
  ELSE IF code_n \in ctx.available THEN "available"
  ELSE "future"

\* nodes[code_n] = {"id", "label", "title": f"{title} ({status})", "color",
\* "level"}: title and color carry the status.
Node(cat, code_n, status) ==
  [ id |-> code_n, label |-> NodeLabel(cat, code_n), status |-> status,
    level |-> node_level(code_n) ]

\* A plausible slip: the node appended without the "already there" test.
prereq_add_node_unchecked(ctx, st, code) ==
  LET code_n == normalize_code(code) IN
  [st EXCEPT !.nodes =
     Append(@, Node(ctx.cat, code_n, prereq_status(ctx, code_n)))]

\* build_prereq_graph.add_node
prereq_add_node(ctx, st, code) ==
  LET code_n == normalize_code(code) IN
  IF code_n \in NodeIds(st.nodes) THEN st
  ELSE [st EXCEPT !.nodes =
          Append(@, Node(ctx.cat, code_n, prereq_status(ctx, code_n)))]

\* build_future_graph.add_node
future_add_node(ctx, st, code) ==
  LET code_n == normalize_code(code) IN
  IF code_n \in NodeIds(st.nodes) THEN st
  ELSE [st EXCEPT !.nodes =
          Append(@, Node(ctx.cat, code_n, future_status(ctx, code_n)))]

\* edges.append({"id": f"e{edge_id}", "from", "to", "label"}); edge_id += 1
AddEdge(st, from, to, label) ==
  [st EXCEPT !.edges =
     Append(@, [ id |-> Len(@), from |-> from, to |-> to, label |-> label ])]

\* The (member, label) pairs the two nested loops over groups visit, in
\* the order they visit them.
RECURSIVE GroupItems(_, _, _)
GroupItems(groups, label, order) ==
  IF groups = << >> THEN << >>
  ELSE LET ms == Iterate(Head(groups), order)
       IN  [ i \in 1..Len(ms) |-> << ms[i], label >> ]
             \o GroupItems(Tail(groups), label, order)

RequirementItems(course, order) ==
  GroupItems(course.prereq_groups, "prereq", order)
    \o GroupItems(course.concurrent_groups, "concurrent", order)

\* build_prereq_graph.dfs; dfs_items is the two for loops of its body.
RECURSIVE dfs(_, _, _, _)
RECURSIVE dfs_items(_, _, _, _, _)
dfs(ctx, st, code, depth) ==
  LET code_n == normalize_code(code) IN
  IF depth > ctx.max_depth THEN st
  ELSE IF code_n \in st.visited THEN st
  ELSE
    LET st1 == prereq_add_node(ctx,
                 [st EXCEPT !.visited = @ \cup {code_n}], code_n)
    IN  IF code_n \notin CatalogCodes(ctx.cat) THEN st1
        ELSE dfs_items(ctx, st1, code_n, depth,
               RequirementItems(Lookup(ctx.cat, code_n), ctx.order))

dfs_items(ctx, st, code_n, depth, items) ==
  IF items = << >> THEN st
  ELSE
    LET pre_n == normalize_code(items[1][1])
        st1   == prereq_add_node(ctx, st, pre_n)
        st2   == AddEdge(st1, pre_n, code_n, items[1][2])
        st3   == dfs(ctx, st2, pre_n, depth + 1)
    IN  dfs_items(ctx, st3, code_n, depth, Tail(items))

EmptyGraphState == [ visited |-> {}, nodes |-> << >>, edges |-> << >> ]

build_prereq_graph(cat, root_code, comp, avail, depth_limit, order) ==
  LET rootn == normalize_code(root_code) IN
  IF rootn \notin CatalogCodes(cat)
  THEN [ nodes |-> << >>, edges |-> << >> ]
  ELSE
    LET ctx == [ cat |-> cat, root |-> rootn, completed |-> NormSet(comp),
                 available |-> NormSet(avail), max_depth |-> depth_limit,
                 order |-> order ]
        st  == dfs(ctx, EmptyGraphState, rootn, 0)
    IN  [ nodes |-> st.nodes, edges |-> st.edges ]

\* The loop that fills adjacency: one (pre_n, course_code, label) entry
\* per group member, courses in catalog order, prerequisite groups before
\* co-requisite groups.
RECURSIVE AdjacencyEntries(_, _)
AdjacencyEntries(cat, order) ==
  IF cat = << >> THEN << >>
  ELSE
    LET course_code == normalize_code(Head(cat).code)
        items       == RequirementItems(Head(cat), order)
    IN  [ i \in 1..Len(items) |->
            << normalize_code(items[i][1]), course_code, items[i][2] >> ]
          \o AdjacencyEntries(Tail(cat), order)

\* A plausible slip: the co-requisite entries left out of adjacency.
AdjacencyOf_prereq_only(adjacency, code_n) ==
  LET mine == SelectSeq(adjacency,
                        LAMBDA en : en[1] = code_n /\ en[3] = "prereq")
  IN  [ i \in 1..Len(mine) |-> << mine[i][2], mine[i][3] >> ]

\* adjacency.get(code_n, [])
AdjacencyOf(adjacency, code_n) ==
  LET mine == SelectSeq(adjacency, LAMBDA en : en[1] = code_n)
  IN  [ i \in 1..Len(mine) |-> << mine[i][2], mine[i][3] >> ]

\* The for loop over adjacency.get(code_n, []) of build_future_graph.
RECURSIVE future_neighbours(_, _, _, _)
future_neighbours(ctx, st, code_n, adj) ==
  IF adj = << >> THEN st
  ELSE
    LET nbr_n == normalize_code(adj[1][1])
        st1   == future_add_node(ctx, st, nbr_n)
        st2   == AddEdge(st1, code_n, nbr_n, adj[1][2])
    IN  future_neighbours(ctx, st2, code_n, Tail(adj))

\* The while loop over the frontier of build_future_graph.
RECURSIVE bfs(_, _, _)
bfs(ctx, st, frontier) ==
  IF frontier = << >> THEN st
  ELSE
    LET code_n == normalize_code(frontier[1][1])
        depth  == frontier[1][2]
        rest   == Tail(frontier)
    IN
    IF code_n \in st.visited THEN bfs(ctx, st, rest)
    ELSE
      LET st1 == future_add_node(ctx,
                   [st EXCEPT !.visited = @ \cup {code_n}], code_n)
      IN
      IF depth >= ctx.max_depth THEN bfs(ctx, st1, rest)
      ELSE
        LET adj == AdjacencyOf(ctx.adjacency, code_n)
        IN  bfs(ctx, future_neighbours(ctx, st1, code_n, adj),
                rest \o [ i \in 1..Len(adj) |-> << adj[i][1], depth + 1 >> ])

build_future_graph(cat, comp, avail, depth_limit, order) ==
  LET ctx   == [ cat |-> cat, completed |-> NormSet(comp),
                 available |-> NormSet(avail), max_depth |-> depth_limit,
                 adjacency |-> AdjacencyEntries(cat, order) ]
      start == Iterate(ctx.completed \cup ctx.available, order)
      st    == bfs(ctx, EmptyGraphState,
                   [ i \in 1..Len(start) |-> << start[i], 0 >> ])
  IN  [ nodes |-> st.nodes, edges |-> st.edges ]

\* The catalogs the builders are called on: four courses in dict order; each
\* course takes its requirement from a menu built on the next course (so
\* that requirement cycles arise) and on a second code, which for the last
\* two courses is a code absent from the catalog.
GraphCodes == << CMPSC131, CMPSC132, MATH140, MATH141 >>

AbsentCode == MATH131

GraphNbr1 == << CMPSC132, MATH140, MATH141, CMPSC131 >>
GraphNbr2 == << MATH140, MATH141, AbsentCode, AbsentCode >>

RequirementMenu(i) ==
  LET n1 == GraphNbr1[i]
      n2 == GraphNbr2[i]
  IN  { << << >>, << >> >>,
        << << {n1} >>, << >> >>,
        << << {n1, n2} >>, << >> >>,
        << << {n1} >>, << {n2} >> >> }

GraphCourse(i, m) ==
  Course(GraphCodes[i], NameOf(GraphCodes[i]), m[1], m[2])

GraphCatalogs ==
  { << GraphCourse(1, m1), GraphCourse(2, m2), GraphCourse(3, m3),
       GraphCourse(4, m4) >> :
      m1 \in RequirementMenu(1), m2 \in RequirementMenu(2),
      m3 \in RequirementMenu(3), m4 \in RequirementMenu(4) }

\* The arguments of a call: roots in and out of the catalog, one of them
\* not in canonical spelling; completed and available sets that overlap.
GraphRoots == { Raw131, MATH140, AbsentCode }

GraphCompleted == { {}, {CMPSC132}, {Raw131, MATH140} }

GraphAvailable == { {}, {MATH140, MATH141} }

\* Largest max_depth of a call (the callers pass 2, the default).
MaxDepth == 2

InitGraph ==
  /\ catalog \in GraphCatalogs
  /\ \/ pc = "call_prereq" /\ root \in GraphRoots
     \/ pc = "call_future" /\ root = << >>
  /\ completed_in \in GraphCompleted
  /\ available \in GraphAvailable
  /\ max_depth \in 0..MaxDepth
  /\ member_order \in {"asc", "desc"}
  /\ max_nodes = 0
  /\ nodes = << >> /\ edges = << >>
  /\ seed = {} /\ seen = {} /\ cur_frontier = {} /\ rounds = 0
  /\ completed = {} /\ planned = {} /\ added_any = FALSE /\ idx = 0
  /\ passes = 0 /\ pass_start = {} /\ result = << >>
  /\ IdleStr /\ IdleTake /\ IdleFind
  /\ IdleLate

\* build_prereq_graph(catalog, root, completed, available, max_depth)
BuildPrereqGraph ==
  /\ pc = "call_prereq"
  /\ LET g == build_prereq_graph(catalog, root, completed_in, available,
                                 max_depth, member_order)
     IN  nodes' = g.nodes /\ edges' = g.edges
  /\ pc' = "prereq_built"
  /\ UNCHANGED << lateVars, catalog, availVars, root, available, max_depth, max_nodes,
                  member_order, seed, seen, cur_frontier, rounds,
                  strVars, takeVars, findVars >>

\* build_future_graph(catalog, completed, available, max_depth)
BuildFutureGraph ==
  /\ pc = "call_future"
  /\ LET g == build_future_graph(catalog, completed_in, available,
                                 max_depth, member_order)
     IN  nodes' = g.nodes /\ edges' = g.edges
  /\ pc' = "future_built"
  /\ UNCHANGED << lateVars, catalog, availVars, root, available, max_depth, max_nodes,
                  member_order, seed, seen, cur_frontier, rounds,
                  strVars, takeVars, findVars >>

NextGraph == BuildPrereqGraph \/ BuildFutureGraph

SpecGraph == InitGraph /\ [][NextGraph]_vars

HasEdge(from, to) ==
  \E i \in 1..Len(edges) : edges[i].from = from /\ edges[i].to = to

\* C16: in the graph either builder returns, every edge's from and to are
\* ids of returned nodes, and no two returned nodes have the same id.
Thm_C16 ==
  pc \in {"prereq_built", "future_built"} =>
    /\ \A i \in 1..Len(edges) :
         /\ \E j \in 1..Len(nodes) : nodes[j].id = edges[i].from
         /\ \E j \in 1..Len(nodes) : nodes[j].id = edges[i].to
    /\ \A i, j \in 1..Len(nodes) : i # j => nodes[i].id # nodes[j].id

\* A prerequisite graph over a requirement cycle (CMPSC 131 needs MATH 140,
\* MATH 140 needs MATH 141, MATH 141 needs CMPSC 131) that also holds a
\* code absent from the catalog.
Wit_C16 ==
  /\ pc = "prereq_built"
  /\ HasEdge(MATH140, CMPSC131)
  /\ HasEdge(MATH141, MATH140)
  /\ HasEdge(CMPSC131, MATH141)
  /\ HasEdge(AbsentCode, MATH141)
  /\ Len(nodes) = 5

UnionOfGroups(groups) == UNION { groups[i] : i \in 1..Len(groups) }

\* The codes in the prerequisite and co-requisite groups of code, restricted
\* to codes present in the catalog.
Dependencies(cat, code) ==
  IF code \notin CatalogCodes(cat) THEN {}
  ELSE LET c == Lookup(cat, code)
       IN  (UnionOfGroups(c.prereq_groups)
              \cup UnionOfGroups(c.concurrent_groups)) \cap CatalogCodes(cat)

\* A plausible slip: no early return on an empty catalog or completed set.
EmptyInputNever(cat, comp) == FALSE

\* "returns an empty graph gracefully on an empty catalog or empty
\* completed set"
EmptyInput(cat, comp) == cat = << >> \/ comp = {}

\* A plausible slip: the sorted list not truncated.
TruncateNone(seq, n) == seq

\* The first n entries of seq.
Truncate(seq, n) == SubSeq(seq, 1, IF Len(seq) < n THEN Len(seq) ELSE n)

\* Step 4.
progression_status(code, comp, eligible_codes) ==
  IF code \in comp THEN "completed"
  ELSE IF code \in eligible_codes THEN "eligible"
  ELSE "locked"

\* Step 5 for one dependent course: the edges from its prerequisites, then
\* from its co-requisites, that are among the included codes.
EdgesInto(cat, code, included) ==
  IF code \notin CatalogCodes(cat) THEN << >>
  ELSE
    LET c    == Lookup(cat, code)
        pre  == Sorted(UnionOfGroups(c.prereq_groups) \cap included)
        conc == Sorted(UnionOfGroups(c.concurrent_groups) \cap included)
    IN  [ i \in 1..Len(pre) |->
            [ from |-> pre[i], to |-> code, kind |-> "prereq" ] ]
        \o [ i \in 1..Len(conc) |->
            [ from |-> conc[i], to |-> code, kind |-> "concurrent" ] ]

RECURSIVE ProgressionEdges(_, _, _)
ProgressionEdges(cat, codes, included) ==
  IF codes = << >> THEN << >>
  ELSE EdgesInto(cat, Head(codes), included)
         \o ProgressionEdges(cat, Tail(codes), included)

\* Largest max_nodes of a call.
MaxNodes == 3

ProgressionCatalogs == GraphCatalogs \cup { << >>, ScenarioCatalog }

ProgressionCompleted ==
  { {}, {CMPSC131}, {CMPSC132, MATH140}, {AbsentCode} }

InitProgression ==
  /\ catalog \in ProgressionCatalogs
  /\ completed_in \in ProgressionCompleted
  /\ max_depth \in 0..MaxDepth
  /\ max_nodes \in 0..MaxNodes
  /\ root = << >> /\ available = {} /\ member_order = "asc"
  /\ nodes = << >> /\ edges = << >>
  /\ seed = {} /\ seen = {} /\ cur_frontier = {} /\ rounds = 0
  /\ completed = {} /\ planned = {} /\ added_any = FALSE /\ idx = 0
  /\ passes = 0 /\ pass_start = {} /\ result = << >>
  /\ pc = "call_progression"
  /\ IdleStr /\ IdleTake /\ IdleFind
  /\ IdleLate

\* Step 1 and the start of Step 2, or the return of an empty graph.
ProgressionStart ==
  /\ pc = "call_progression"
  /\ result' = available_courses(catalog, completed_in)
  /\ IF EmptyInput(catalog, completed_in)
     THEN /\ pc' = "progression_done"
          /\ UNCHANGED << seed, cur_frontier >>
     ELSE /\ seed' = completed_in \cup CodesOf(result')
          /\ cur_frontier' = seed'
          /\ pc' = "expand"
  /\ UNCHANGED << lateVars, catalog, completed_in, completed, planned, added_any, idx,
                  passes, pass_start, root, available, max_depth, max_nodes,
                  nodes, edges, member_order, seen, rounds,
                  strVars, takeVars, findVars >>

\* One round of Step 2.
ProgressionRound ==
  /\ pc = "expand"
  /\ rounds < max_depth
  /\ seen' = seen \cup cur_frontier
  /\ cur_frontier' = UNION { Dependencies(catalog, c) : c \in cur_frontier }
  /\ rounds' = rounds + 1
  /\ UNCHANGED << lateVars, catalog, availVars, pc, root, available, max_depth,
                  max_nodes, nodes, edges, member_order, seed,
                  strVars, takeVars, findVars >>

\* Steps 3, 4 and 5.
ProgressionFinish ==
  /\ pc = "expand"
  /\ rounds = max_depth
  /\ LET included == Truncate(Sorted(seed \cup seen \cup cur_frontier),
                              max_nodes)
         eligible_codes == CodesOf(result)
     IN  /\ nodes' = [ i \in 1..Len(included) |->
                         Node(catalog, included[i],
                              progression_status(included[i], completed_in,
                                                 eligible_codes)) ]
         /\ edges' = ProgressionEdges(catalog, included,
                       { included[i] : i \in 1..Len(included) })
  /\ pc' = "progression_done"
  /\ UNCHANGED << lateVars, catalog, availVars, root, available, max_depth, max_nodes,
                  member_order, seed, seen, cur_frontier, rounds,
                  strVars, takeVars, findVars >>

NextProgression == ProgressionStart \/ ProgressionRound \/ ProgressionFinish

SpecProgression == InitProgression /\ [][NextProgression]_vars

\* The codes the expansion gathered.
Gathered == seed \cup seen \cup cur_frontier

\* C17: the returned graph has at most max_nodes nodes; their ids are, in
\* ascending order, the max_nodes smallest codes of seed, seen and the final
\* frontier together (all of them when there are fewer); every edge joins
\* two returned nodes.
Thm_C17 ==
  pc = "progression_done" =>
    /\ Len(nodes) <= max_nodes
    /\ Len(nodes) = IF Cardinality(Gathered) < max_nodes
                    THEN Cardinality(Gathered) ELSE max_nodes
    /\ NodeIds(nodes) \subseteq Gathered
    /\ \A i, j \in 1..Len(nodes) :
         i < j => StrLess(nodes[i].id, nodes[j].id)
    /\ \A c \in Gathered \ NodeIds(nodes) :
         \A i \in 1..Len(nodes) : StrLess(nodes[i].id, c)
    /\ \A i \in 1..Len(edges) :
         edges[i].from \in NodeIds(nodes) /\ edges[i].to \in NodeIds(nodes)

\* A truncated graph: more codes gathered than max_nodes, an edge between
\* two kept nodes, and a requirement of a kept node that was cut off.
Wit_C17 ==
  /\ pc = "progression_done"
  /\ Cardinality(Gathered) > max_nodes
  /\ Len(nodes) = 2
  /\ edges # << >>
  /\ \E c \in Gathered \ NodeIds(nodes) :
       \E i \in 1..Len(nodes) : c \in Dependencies(catalog, nodes[i].id)

Nothing == {}

Some(v) == { v }

\* Course(code=..., name=..., credits=..., prereq_groups=...,
\*        concurrent_groups=..., description=...)
FullCourse(code, name, credits, pre, conc, description) ==
  [ code |-> code, name |-> name, credits |-> credits,
    prereq_groups |-> pre, concurrent_groups |-> conc,
    description |-> description ]

\* [sorted(list(group)) for group in groups]
SortedGroups(groups) == [ i \in 1..Len(groups) |-> Sorted(groups[i]) ]

\* [set(group) for group in lists]
SetGroups(lists) ==
  [ i \in 1..Len(lists) |-> { lists[i][j] : j \in 1..Len(lists[i]) } ]

catalog_to_json_dict(cat) ==
  [ i \in 1..Len(cat) |->
      [ key   |-> cat[i].key,
        value |-> [ code |-> cat[i].value.code,
                    name |-> cat[i].value.name,
                    credits |-> cat[i].value.credits,
                    prereq_groups |->
                      SortedGroups(cat[i].value.prereq_groups),
                    concurrent_groups |->
                      SortedGroups(cat[i].value.concurrent_groups),
                    description |-> cat[i].value.description ] ] ]

\* A plausible slip: the description read under a key the dict does not
\* have, so that obj.get returns None.
catalog_from_json_dict_no_description(data) ==
  [ i \in 1..Len(data) |->
      [ key   |-> data[i].key,
        value |-> FullCourse(data[i].value.code, data[i].value.name,
                             data[i].value.credits,
                             SetGroups(data[i].value.prereq_groups),
                             SetGroups(data[i].value.concurrent_groups),
                             Nothing) ] ]

catalog_from_json_dict(data) ==
  [ i \in 1..Len(data) |->
      [ key   |-> data[i].key,
        value |-> FullCourse(data[i].value.code, data[i].value.name,
                             data[i].value.credits,
                             SetGroups(data[i].value.prereq_groups),
                             SetGroups(data[i].value.concurrent_groups),
                             data[i].value.description) ] ]

\* The catalogs cached in the checked runs: up to MaxCourses courses, each
\* with or without credits and description, and requirement groups of one,
\* two and three members, one of them written without the space (COURSE_REGEX
\* admits it).
MaxCourses == 2

\* "CMPSC131": a requirement member as the scraper keeps it when the
\* bulletin writes the code without a space.
Joined131 == << "C", "M", "P", "S", "C", "1", "3", "1" >>

CacheRequirements ==
  { << << >>, << >> >>,
    << << {CMPSC131} >>, << >> >>,
    << << {MATH141, CMPSC132, Joined131}, {MATH140} >>, << >> >>,
    << << {MATH140} >>, << {MATH141, CMPSC131} >> >> }

CacheCourses(code) ==
  { FullCourse(code, NameOf(code), credits, r[1], r[2], description) :
      credits \in { Nothing, Some(3) },
      description \in { Nothing, Some(<< "t", "e", "x", "t" >>) },
      r \in CacheRequirements }

RECURSIVE CacheCatalogsUpTo(_)
CacheCatalogsUpTo(n) ==
  IF n = 0 THEN { << >> }
  ELSE LET shorter == CacheCatalogsUpTo(n - 1)
       IN  shorter \cup
           { Append(cat, [ key |-> course.code, value |-> course ]) :
               cat \in { c \in shorter : Len(c) = n - 1 },
               course \in CacheCourses(GraphCodes[n]) }

CacheCatalogs == CacheCatalogsUpTo(MaxCourses)

\* The functions of the earlier sections are not running.
IdleEarly ==
  /\ IdleAvail /\ added_any = FALSE /\ idx = 0 /\ passes = 0
  /\ pass_start = {} /\ result = << >>
  /\ IdleStr /\ IdleTake /\ IdleFind /\ IdleGraph

InitCache ==
  /\ catalog \in CacheCatalogs
  /\ json_dict = << >> /\ loaded = << >>
  /\ pc = "to_json"
  /\ IdleEarly /\ IdleWeb /\ IdleApi /\ IdleProcs /\ IdleChat

\* data = catalog_to_json_dict(catalog)
ToJson ==
  /\ pc = "to_json"
  /\ json_dict' = catalog_to_json_dict(catalog)
  /\ pc' = "from_json"
  /\ UNCHANGED << catalog, availVars, earlyVars, loaded, webVars, apiVars,
                  procs, chatVars >>

\* catalog_from_json_dict(data)
FromJson ==
  /\ pc = "from_json"
  /\ loaded' = catalog_from_json_dict(json_dict)
  /\ pc' = "cached"
  /\ UNCHANGED << catalog, availVars, earlyVars, json_dict, webVars, apiVars,
                  procs, chatVars >>

NextCache == ToJson \/ FromJson

SpecCache == InitCache /\ [][NextCache]_vars

\* C21: the catalog read back from the JSON dict has the keys of the
\* catalog it was written from, in the same order, and under every key a
\* course with equal code, name, credits and description and with the same
\* sequence of prerequisite groups and of co-requisite groups, group by
\* group the same set of members.
Thm_C21 ==
  pc = "cached" =>
    /\ Len(loaded) = Len(catalog)
    /\ \A i \in 1..Len(catalog) :
         LET was == catalog[i].value
             now == loaded[i].value
         IN  /\ loaded[i].key = catalog[i].key
             /\ now.code = was.code
             /\ now.name = was.name
             /\ now.credits = was.credits
             /\ now.description = was.description
             /\ Len(now.prereq_groups) = Len(was.prereq_groups)
             /\ \A g \in 1..Len(was.prereq_groups) :
                  now.prereq_groups[g] = was.prereq_groups[g]
             /\ Len(now.concurrent_groups) = Len(was.concurrent_groups)
             /\ \A g \in 1..Len(was.concurrent_groups) :
                  now.concurrent_groups[g] = was.concurrent_groups[g]

\* A two-course catalog read back: a described course with credits, and a
\* three-member group that the dict holds as a sorted list.
Wit_C21 ==
  /\ pc = "cached"
  /\ Len(loaded) = 2
  /\ loaded[1].value.description # Nothing
  /\ loaded[1].value.credits = Some(3)
  /\ loaded[2].value.credits = Nothing
  /\ json_dict[2].value.prereq_groups =
       << << CMPSC132, Joined131, MATH141 >>, << MATH140 >> >>
  /\ loaded[2].value.prereq_groups[1] = {MATH141, CMPSC132, Joined131}

(* ------------------------------------------------------------------ *)
(* The web form handler (src/app.py, index): goal course analysis      *)
(* ------------------------------------------------------------------ *)

\* s.replace("  ", " "): non-overlapping pairs of spaces, left to right.
RECURSIVE ReplaceSpacePairs(_)
ReplaceSpacePairs(s) ==
  IF Len(s) < 2 THEN s
  ELSE IF s[1] = " " /\ s[2] = " "
       THEN << " " >> \o ReplaceSpacePairs(SubSeq(s, 3, Len(s)))
       ELSE << s[1] >> \o ReplaceSpacePairs(Tail(s))

\* s.strip().upper().replace("  ", " ")
FormNorm(s) == ReplaceSpacePairs(Upper(Strip(s)))

\* s.split(",")
RECURSIVE SplitComma(_)
SplitComma(s) ==
  IF \A i \in 1..Len(s) : s[i] # "," THEN << s >>
  ELSE LET k == CHOOSE i \in 1..Len(s) :
                  s[i] = "," /\ \A j \in 1..(i - 1) : s[j] # ","
       IN  << SubSeq(s, 1, k - 1) >> \o SplitComma(SubSeq(s, k + 1, Len(s)))

\* { c.strip().upper().replace("  ", " ")
\*   for c in completed_text.split(",") if c.strip() }
FormCompleted(text) ==
  LET parts == SplitComma(Strip(text))
  IN  { FormNorm(parts[i]) :
          i \in { j \in 1..Len(parts) : Strip(parts[j]) # << >> } }

\* The groups of a requirement that meet (met = TRUE) or miss (met = FALSE)
\* the set have, in group order, each as sorted(group).
RECURSIVE SplitGroups(_, _, _)
SplitGroups(groups, have, met) ==
  IF groups = << >> THEN << >>
  ELSE LET rest == SplitGroups(Tail(groups), have, met)
       IN  IF (Head(groups) \cap have # {}) = met
           THEN << Sorted(Head(groups)) >> \o rest
           ELSE rest

\* The course the analysis is about: the first match whose upper-cased code
\* is goal_norm, otherwise the first match.
Chosen(matches, goal) ==
  LET goal_norm == FormNorm(goal)
      exact == { i \in 1..Len(matches) : Upper(matches[i].code) = goal_norm }
  IN  IF exact # {}
      THEN matches[CHOOSE i \in exact : \A j \in exact : i <= j]
      ELSE matches[1]

NoGoalResult == [ found |-> FALSE ]

GoalResult(chosen, pre_have, conc_have) ==
  [ found |-> TRUE,
    code |-> chosen.code,
    name |-> chosen.name,
    pre_satisfied  |-> SplitGroups(chosen.prereq_groups, pre_have, TRUE),
    pre_missing    |-> SplitGroups(chosen.prereq_groups, pre_have, FALSE),
    conc_satisfied |-> SplitGroups(chosen.concurrent_groups, conc_have, TRUE),
    conc_missing   |-> SplitGroups(chosen.concurrent_groups, conc_have,
                                   FALSE) ]

\* A plausible slip: the co-requisites judged against completed alone.
goal_analysis_completed_only(cat, goal, done, avail_codes) ==
  LET matches == find_course(cat, goal) IN
    IF goal = << >> \/ matches = << >> THEN NoGoalResult
    ELSE GoalResult(Chosen(matches, goal), done, done)

\* A plausible slip: the prerequisites judged against completed and
\* available courses, as the co-requisites are.
goal_analysis_pre_available(cat, goal, done, avail_codes) ==
  LET matches == find_course(cat, goal) IN
    IF goal = << >> \/ matches = << >> THEN NoGoalResult
    ELSE GoalResult(Chosen(matches, goal), done \cup avail_codes,
                    done \cup avail_codes)

\* "Goal course analysis": goal_course_result, or None when there is no
\* goal or no match.
goal_analysis(cat, goal, done, avail_codes) ==
  LET matches == find_course(cat, goal) IN
    IF goal = << >> \/ matches = << >> THEN NoGoalResult
    ELSE GoalResult(Chosen(matches, goal), done, done \cup avail_codes)

\* Two courses that are each other's co-requisite, and a course with no
\* requirement.
CycleCatalog ==
  << Course(CMPSC131, NameOf(CMPSC131), << >>, << {CMPSC132} >>),
     Course(CMPSC132, NameOf(CMPSC132), << >>, << {CMPSC131} >>),
     Course(MATH140,  NameOf(MATH140),  << >>, << >>) >>

\* Requirements in several groups, one member written without the space.
GroupsCatalog ==
  << Course(CMPSC131, NameOf(CMPSC131), << >>, << >>),
     Course(CMPSC132, NameOf(CMPSC132),
            << {MATH141, CMPSC131}, {MATH140}, {Joined131, MATH131} >>,
            << {MATH141}, {CMPSC132, MATH131} >>),
     Course(MATH140,  NameOf(MATH140),  << >>, << >>),
     Course(MATH141,  NameOf(MATH141),  << {MATH140} >>, << >>) >>

WebCatalogs == GraphCatalogs \cup { ScenarioCatalog, CycleCatalog, GroupsCatalog }

\* The completed field: empty, canonical, lower-case with stray commas and
\* blanks, and entries with a run of three spaces or a tab inside.
CompletedTexts ==
  { << >>,
    << "C", "M", "P", "S", "C", " ", "1", "3", "1" >>,
    << " ", "c", "m", "p", "s", "c", " ", "1", "3", "1", " ", ",", ",",
       "m", "a", "t", "h", " ", "1", "4", "0", "," >>,
    << "C", "M", "P", "S", "C", " ", "1", "3", "2", ",",
       "M", "A", "T", "H", " ", "1", "4", "1" >>,
    << "C", "M", "P", "S", "C", " ", " ", " ", "1", "3", "1" >>,
    << "M", "A", "T", "H", "\t", "1", "4", "0" >> }

\* The goal_course field, as request.form.get(...).strip() leaves it.
GoalCourses ==
  { << >>,
    CMPSC131,
    CMPSC132,
    << "m", "a", "t", "h", " ", " ", "1", "4", "1" >>,
    << "1", "4", "0" >>,
    MATH131 }

InitWeb ==
  /\ catalog \in WebCatalogs
  /\ completed_text \in CompletedTexts
  /\ goal_course \in GoalCourses
  /\ goal_course_result = NoGoalResult
  /\ pc = "request"
  /\ IdleEarly /\ IdleCache /\ IdleApi /\ IdleProcs /\ IdleChat

\* One POST of the form: the completed set, the availability list and the
\* goal course analysis (the listings by level and the graphs are rendered
\* from the same values and feed nothing back).
Index ==
  /\ pc = "request"
  /\ completed' = FormCompleted(completed_text)
  /\ result' = IF completed' # {}
               THEN available_courses(catalog, completed')
               ELSE << >>
  /\ goal_course_result' =
       goal_analysis(catalog, goal_course, completed', CodesOf(result'))
  /\ pc' = "rendered"
  /\ UNCHANGED << catalog, completed_in, planned, added_any, idx, passes,
                  pass_start, earlyVars, completed_text, goal_course,
                  cacheVars, apiVars, procs, chatVars >>

NextWeb == Index

SpecWeb == InitWeb /\ [][NextWeb]_vars

\* The positions of the groups that have no member in the set.
UnmetPositions(groups, have) ==
  { i \in 1..Len(groups) : groups[i] \cap have = {} }

\* list holds, in group order, the groups at the given positions, each as
\* its sorted code list.
ListsGroupsAt(list, groups, positions) ==
  /\ Len(list) = Cardinality(positions)
  /\ \A i \in positions :
       list[Cardinality({ j \in positions : j <= i })] = Sorted(groups[i])

\* C22: the missing prerequisites reported for the analysed course are, in
\* the course's group order, exactly its prerequisite groups with no member
\* in completed, each as a sorted code list; for CMPSC 132 of the scenario
\* catalog with nothing completed they are [[CMPSC 131]] and no co-requisite
\* is missing.
Thm_C22 ==
  (pc = "rendered" /\ goal_course_result.found) =>
    LET course == Lookup(catalog, goal_course_result.code) IN
      /\ ListsGroupsAt(goal_course_result.pre_missing, course.prereq_groups,
                       UnmetPositions(course.prereq_groups, completed))
      /\ (catalog = ScenarioCatalog /\ course.code = CMPSC132
          /\ completed = {})
           => /\ goal_course_result.pre_missing = << << CMPSC131 >> >>
              /\ goal_course_result.conc_missing = << >>

\* A course with three prerequisite groups of which the first is met and
\* the other two, one of them with two members, are reported in order.
Wit_C22 ==
  /\ pc = "rendered"
  /\ catalog = GroupsCatalog
  /\ completed = {CMPSC131}
  /\ goal_course_result.found
  /\ goal_course_result.code = CMPSC132
  /\ goal_course_result.pre_satisfied = << << CMPSC131, MATH141 >> >>
  /\ goal_course_result.pre_missing =
       << << MATH140 >>, << Joined131, MATH131 >> >>

\* C23: a co-requisite group is reported missing exactly when it has no
\* member in completed together with the analysed course's own code; the
\* courses available for the same completed set are not consulted.
Orig_C23 ==
  (pc = "rendered" /\ goal_course_result.found) =>
    LET course == Lookup(catalog, goal_course_result.code) IN
      ListsGroupsAt(goal_course_result.conc_missing,
                    course.concurrent_groups,
                    UnmetPositions(course.concurrent_groups,
                                   completed \cup { course.code }))

\* A code whose only whitespace is single spaces between its parts.
SingleSpaced(code) ==
  /\ \A i \in 1..Len(code) : IsSpace(code[i]) => code[i] = " "
  /\ \A i \in 1..(Len(code) - 1) : ~(code[i] = " " /\ code[i + 1] = " ")

\* C29: in the web form handler, when the completed set is not empty and
\* single-spaced and the goal course is a catalog course that is not
\* completed, the goal analysis reports no missing prerequisite group and no
\* missing concurrent group exactly when the goal course is in the list
\* available_courses returned for the request.
Thm_C29 ==
  (/\ pc = "rendered"
   /\ completed # {}
   /\ \A c \in completed : SingleSpaced(c)
   /\ normalize_code(goal_course) \in CatalogCodes(catalog)
   /\ normalize_code(goal_course) \notin completed)
  => /\ goal_course_result.found
     /\ goal_course_result.code = normalize_code(goal_course)
     /\ (/\ goal_course_result.pre_missing = << >>
         /\ goal_course_result.conc_missing = << >>)
        <=> goal_course_result.code \in CodesOf(result)

\* MATH 141, typed in lower case with two spaces, is available with
\* CMPSC 131 completed only because its co-requisite MATH 140 is available
\* in the same request, and the analysis reports nothing missing.
Wit_C29 ==
  /\ pc = "rendered"
  /\ catalog = ScenarioCatalog
  /\ completed = {CMPSC131}
  /\ goal_course = << "m", "a", "t", "h", " ", " ", "1", "4", "1" >>
  /\ goal_course_result.found
  /\ goal_course_result.code = MATH141
  /\ goal_course_result.conc_satisfied = << << MATH140 >> >>
  /\ goal_course_result.pre_missing = << >>
  /\ goal_course_result.conc_missing = << >>
  /\ MATH141 \in CodesOf(result)
  /\ MATH140 \notin completed

(* ------------------------------------------------------------------ *)
(* POST /api/plan (src/Backend/app.py, api_plan)                       *)
(* ------------------------------------------------------------------ *)

\* re.sub(r"\s+", " ", (s or "").strip().upper()), the handler's own
\* _normalize_code.
backend_normalize_code(s) == CollapseWs(Upper(Strip(s)))

\* DEFAULT_SETTINGS["show_rag"]; no route writes session["settings"], so
\* get_settings() returns the defaults.
show_rag == TRUE

\* max_turns=6
MaxTurns == 6

DefaultDept == << "C", "M", "P", "S", "C" >>

DefaultLevels == {100, 200, 300, 400}

Triggers ==
  << << "w", "h", "a", "t", " ", "c", "o", "u", "r", "s", "e", "s", " ",
        "s", "h", "o", "u", "l", "d", " ", "i", " ", "t", "a", "k", "e" >>,
     << "w", "h", "a", "t", " ", "s", "h", "o", "u", "l", "d", " ", "i",
        " ", "t", "a", "k", "e" >>,
     << "f", "i", "r", "s", "t", " ", "s", "e", "m", "e", "s", "t", "e",
        "r" >>,
     << "s", "e", "c", "o", "n", "d", " ", "s", "e", "m", "e", "s", "t",
        "e", "r" >>,
     << "s", "t", "a", "r", "t", "i", "n", "g", " ", "o", "u", "t" >>,
     << "i", " ", "h", "a", "v", "e", " ", "n", "o", " ", "c", "o", "u",
        "r", "s", "e", "s" >>,
     << "0", " ", "c", "o", "u", "r", "s", "e", "s" >>,
     << "f", "r", "e", "s", "h", "m", "a", "n" >>,
     << "f", "o", "u", "n", "d", "a", "t", "i", "o", "n" >>,
     << "b", "e", "g", "i", "n", "n", "e", "r" >> >>

\* any(t in q for t in triggers), q = (q or "").strip().lower()
looks_like_foundation_question(q) ==
  LET ql == Lower(Strip(q))
  IN  \E i \in 1..Len(Triggers) : Contains(Triggers[i], ql)

\* The dict of one course in the response.
CourseDict(c) ==
  [ code |-> c.code, name |-> c.name,
    prereq_groups |-> SortedGroups(c.prereq_groups),
    concurrent_groups |-> SortedGroups(c.concurrent_groups) ]

\* ((course_level(c.code) or 0) in level_filters) or
\* ((course_level(c.code) or 0) >= 400 and 400 in level_filters)
PassesLevels(code, filters) ==
  LET lvl == IF course_level(code) = None THEN 0 ELSE course_level(code)
  IN  \/ lvl \in filters
      \/ (lvl >= 400 /\ 400 \in filters)

RECURSIVE ReportedEligible(_, _)
ReportedEligible(list, filters) ==
  IF list = << >> THEN << >>
  ELSE LET rest == ReportedEligible(Tail(list), filters)
       IN  IF PassesLevels(Head(list).code, filters)
           THEN << CourseDict(Head(list)) >> \o rest
           ELSE rest

\* eligible = available_courses(catalog, completed) if completed else []
Eligible(cat, done) == IF done # {} THEN available_courses(cat, done) ELSE << >>

\* session["chat_history_by_dept"].get(dept, [])
get_chat_history_for_dept(store, dept) ==
  IF dept \in DOMAIN store THEN store[dept] ELSE << >>

\* history[-n:] for n > 0
LastEntries(history, n) ==
  IF Len(history) <= n THEN history
  ELSE SubSeq(history, Len(history) - n + 1, Len(history))

\* A plausible slip: history[:max_turns * 2], the oldest entries kept.
set_chat_history_for_dept_oldest(store, dept, history) ==
  (dept :> SubSeq(history, 1, IF Len(history) <= MaxTurns * 2
                              THEN Len(history) ELSE MaxTurns * 2)) @@ store

\* session["chat_history_by_dept"][dept] = history[-(max_turns * 2):]
set_chat_history_for_dept(store, dept, history) ==
  (dept :> LastEntries(history, MaxTurns * 2)) @@ store

Entry(role, content) == [ role |-> role, content |-> content ]

\* What the handler works with: the dept, the completed set, the question
\* and the level filters it reads from the JSON body.
DeptOf(req) ==
  Upper(Strip(IF req.dept = << >> THEN DefaultDept ELSE req.dept))

CompletedOf(req) ==
  { backend_normalize_code(req.completed[i]) :
      i \in { j \in 1..Len(req.completed) : Strip(req.completed[j]) # << >> } }

QuestionOf(req) == Strip(req.rag_question)

LevelsOf(req) ==
  IF req.level_filters = << >> THEN DefaultLevels
  ELSE { req.level_filters[i] : i \in 1..Len(req.level_filters) }

\* The branch of the RAG block a request takes.
RagPath(req) ==
  IF QuestionOf(req) = << >> \/ ~show_rag THEN "none"
  ELSE IF CompletedOf(req) = {}
          /\ looks_like_foundation_question(QuestionOf(req))
       THEN "foundation"
       ELSE "chat"

FoundationPlan == << "p", "l", "a", "n" >>

Raises == << "r", "a", "i", "s", "e", "s" >>

NoResponse == [ status |-> 0 ]

\* The total number of turns appended in the session.
Turns ==
  LET Count[S \in SUBSET (DOMAIN conversation)] ==
        IF S = {} THEN 0
        ELSE LET d == CHOOSE x \in S : TRUE
             IN  Len(conversation[d]) \div 2 + Count[S \ {d}]
  IN  Count[DOMAIN conversation]

\* The longest session explored.
MaxConversation == 9

\* One request handled by api_plan; answer is what rag_answer_fn returns,
\* or Raises when the call fails and the request ends with an error.
ApiPlan(req, answer) ==
  /\ Turns < MaxConversation
  /\ api_request' = req
  /\ LET dept == DeptOf(req)
         done == CompletedOf(req)
         elig == Eligible(catalog, done)
         path == RagPath(req)
         history == get_chat_history_for_dept(chat_history_by_dept, dept)
         turn == << Entry("user", QuestionOf(req)),
                    Entry("assistant", answer) >>
     IN  IF path = "chat" /\ answer = Raises
         THEN /\ api_response' = [ status |-> 500 ]
              /\ UNCHANGED chatVars
         ELSE /\ api_response' =
                   [ status |-> 200,
                     dept |-> dept,
                     completed |-> Sorted(done),
                     eligible |-> ReportedEligible(elig, LevelsOf(req)),
                     rag_response |->
                       IF path = "chat" THEN answer
                       ELSE IF path = "foundation" THEN FoundationPlan
                       ELSE << >> ]
              /\ IF path = "chat"
                 THEN /\ chat_history_by_dept' =
                           set_chat_history_for_dept(chat_history_by_dept,
                                                     dept, history \o turn)
                      /\ conversation' =
                           (dept :> (get_chat_history_for_dept(conversation,
                                                               dept) \o turn))
                             @@ conversation
                 ELSE UNCHANGED chatVars
  /\ UNCHANGED << catalog, availVars, pc, earlyVars, cacheVars, webVars,
                  procs >>

Request(dept, completed_raw, level_filters, rag_question) ==
  [ dept |-> dept, completed |-> completed_raw,
    level_filters |-> level_filters, rag_question |-> rag_question ]

Answers == { << "o", "k" >>, Raises }

\* Requests for the eligible list: no completed course, blank entries only,
\* entries in and out of canonical spelling; default and chosen levels.
PlanRequests ==
  { Request(<< >>, done, levels, << >>) :
      done \in { << >>, << << " " >> >>, << Raw131 >>,
                 << CMPSC132, << >>, MATH140 >> },
      levels \in { << >>, << 100, 100 >>, << 200, 400 >> } }

InitPlan ==
  /\ catalog \in WebCatalogs
  /\ api_request = << >>
  /\ api_response = NoResponse
  /\ chat_history_by_dept = << >> /\ conversation = << >>
  /\ pc = "serving"
  /\ IdleEarly /\ IdleCache /\ IdleWeb /\ IdleProcs

NextPlan == \E req \in PlanRequests : ApiPlan(req, << "o", "k" >>)

SpecPlan == InitPlan /\ [][NextPlan]_vars

\* C25: the eligible list of the response is the list available_courses
\* returns for the request's completed set, also when that set is empty:
\* the catalog courses with no requirement are then listed.  (Stated for the
\* default level filters, which keep every course of these catalogs.)
Orig_C25 ==
  (api_response.status = 200 /\ LevelsOf(api_request) = DefaultLevels) =>
    LET expected == available_courses(catalog, CompletedOf(api_request))
    IN  /\ Len(api_response.eligible) = Len(expected)
        /\ \A i \in 1..Len(expected) :
             api_response.eligible[i].code = expected[i].code

\* The catalog of the session whose chat history is followed.
ChatCatalog == << Course(CMPSC131, NameOf(CMPSC131), << >>, << >>) >>

\* An ordinary question, another one padded with blanks, and one that looks
\* like a foundation question.
AskMaps == << "m", "a", "p", "s" >>

AskPaths == << " ", "P", "a", "t", "h", "s", " " >>

AskFoundation == << "0", " ", "c", "o", "u", "r", "s", "e", "s" >>

MathDept == << " ", "m", "a", "t", "h" >>

\* Requests of one session for two departments (the default one and MATH in
\* lower case), with and without a completed course and a question.
ChatRequests ==
  { Request(<< >>, << >>, << >>, AskMaps),
    Request(<< >>, << CMPSC131 >>, << >>, AskFoundation),
    Request(<< >>, << >>, << >>, AskFoundation),
    Request(<< >>, << CMPSC131 >>, << >>, << >>),
    Request(MathDept, << >>, << >>, AskPaths),
    Request(MathDept, << >>, << >>, AskFoundation) }

InitChat ==
  /\ catalog = ChatCatalog
  /\ api_request = << >>
  /\ api_response = NoResponse
  /\ chat_history_by_dept = << >> /\ conversation = << >>
  /\ pc = "serving"
  /\ IdleEarly /\ IdleCache /\ IdleWeb /\ IdleProcs

NextChat == \E req \in ChatRequests, answer \in Answers : ApiPlan(req, answer)

SpecChat == InitChat /\ [][NextChat]_vars

\* user, assistant, user, assistant, ...
Alternates(history) ==
  \A i \in 1..Len(history) :
    history[i].role = IF i % 2 = 1 THEN "user" ELSE "assistant"

\* C30: throughout a session every department's stored history has at most
\* 2 * max_turns = 12 entries, which are the most recent entries of that
\* department's conversation in their order, user and assistant
\* alternating; a request changes no history but that of its own
\* department, and a request answered by the foundation plan changes none.
Thm_C30 ==
  /\ [](/\ DOMAIN chat_history_by_dept = DOMAIN conversation
        /\ \A d \in DOMAIN chat_history_by_dept :
             LET stored == chat_history_by_dept[d]
                 all    == conversation[d]
             IN  /\ Len(stored) <= 2 * MaxTurns
                 /\ Len(stored) <= 12
                 /\ Len(stored) <= Len(all)
                 /\ Len(stored) < 12 => stored = all
                 /\ stored = SubSeq(all, Len(all) - Len(stored) + 1, Len(all))
                 /\ Alternates(stored))
  /\ [][\A d \in DOMAIN chat_history_by_dept' :
          d # DeptOf(api_request') =>
            /\ d \in DOMAIN chat_history_by_dept
            /\ chat_history_by_dept'[d] = chat_history_by_dept[d]]_vars
  /\ [][RagPath(api_request') = "foundation" =>
          chat_history_by_dept' = chat_history_by_dept]_vars

\* A session in which CMPSC has had seven turns, so that its first turn is
\* no longer stored, MATH keeps its own single turn, and the last request
\* was answered by the foundation plan.
Wit_C30 ==
  /\ DOMAIN chat_history_by_dept = { DefaultDept, << "M", "A", "T", "H" >> }
  /\ Len(conversation[DefaultDept]) = 14
  /\ Len(chat_history_by_dept[DefaultDept]) = 12
  /\ conversation[DefaultDept][1].content = AskMaps
  /\ conversation[DefaultDept][3].content = AskFoundation
  /\ chat_history_by_dept[DefaultDept][1].content = AskFoundation
  /\ chat_history_by_dept[<< "M", "A", "T", "H" >>] =
       << Entry("user", << "P", "a", "t", "h", "s" >>),
          Entry("assistant", << "o", "k" >>) >>
  /\ api_response.status = 200
  /\ api_response.rag_response = FoundationPlan

(* ------------------------------------------------------------------ *)
(* Two concurrent calls of available_courses on one catalog            *)
(* ------------------------------------------------------------------ *)

\* The calls.  Each has its own frame: arg is the set object its caller
\* passed, completed, planned, added_any and idx are its locals.  A step of
\* a call is one statement of the function or one iteration of its for
\* loop; the steps of the two calls interleave freely.
Calls == {1, 2}

Frame(arg) ==
  [ arg |-> arg, completed |-> {}, planned |-> {}, added_any |-> FALSE,
    idx |-> 0, result |-> << >>, pc |-> "call" ]

\* A plausible slip: planned kept in one module-level set that every call
\* reads and writes.
PlannedOf_shared(frames, p) == UNION { frames[q].planned : q \in DOMAIN frames }

\* The planned set of call p: a local of its frame.
PlannedOf(frames, p) == frames[p].planned

\* The catalogs and completed sets of the concurrent calls.
SharedCatalogs == { ScenarioCatalog, CycleCatalog, GroupsCatalog }

CallerSets == { {}, {Raw131}, {CMPSC132, MATH140}, {MATH140, MATH141} }

InitConcurrent ==
  /\ catalog \in SharedCatalogs
  /\ procs \in [ Calls -> { Frame(arg) : arg \in CallerSets } ]
  /\ pc = "threads"
  /\ IdleEarly /\ IdleCache /\ IdleWeb /\ IdleApi /\ IdleChat

OthersUnchanged ==
  UNCHANGED << catalog, availVars, pc, earlyVars, cacheVars, webVars,
               apiVars, chatVars >>

\* completed = {_normalize_code(c) for c in completed}; planned = set()
CallNormalize(p) ==
  /\ procs[p].pc = "call"
  /\ procs' = [ procs EXCEPT
                  ![p].completed = { normalize_code(c) : c \in procs[p].arg },
                  ![p].planned = {},
                  ![p].pc = "while" ]
  /\ OthersUnchanged

\* while True: added_any = False; for course in catalog.values():
CallBeginPass(p) ==
  /\ procs[p].pc = "while"
  /\ procs' = [ procs EXCEPT ![p].added_any = FALSE, ![p].idx = 1,
                             ![p].pc = "for" ]
  /\ OthersUnchanged

\* One iteration of the for loop of call p.
CallVisit(p) ==
  /\ procs[p].pc = "for"
  /\ procs[p].idx <= Len(catalog)
  /\ LET st == visit(catalog[procs[p].idx], procs[p].completed,
                     [ planned |-> PlannedOf(procs, p),
                       added_any |-> procs[p].added_any ])
     IN  procs' = [ procs EXCEPT ![p].planned = st.planned,
                                 ![p].added_any = st.added_any,
                                 ![p].idx = procs[p].idx + 1 ]
  /\ OthersUnchanged

\* if not added_any: break
CallEndPass(p) ==
  /\ procs[p].pc = "for"
  /\ procs[p].idx > Len(catalog)
  /\ procs' = [ procs EXCEPT
                  ![p].pc = IF LoopStops(procs[p].added_any)
                            THEN "return" ELSE "while" ]
  /\ OthersUnchanged

\* return [catalog[code] for code in sorted(planned)]
CallReturn(p) ==
  /\ procs[p].pc = "return"
  /\ procs' = [ procs EXCEPT
                  ![p].result =
                     LET codes == Sorted(PlannedOf(procs, p))
                     IN  [ i \in 1..Len(codes) |-> Lookup(catalog, codes[i]) ],
                  ![p].pc = "done" ]
  /\ OthersUnchanged

NextConcurrent ==
  \E p \in Calls :
    \/ CallNormalize(p)
    \/ CallBeginPass(p)
    \/ CallVisit(p)
    \/ CallEndPass(p)
    \/ CallReturn(p)

SpecConcurrent == InitConcurrent /\ [][NextConcurrent]_vars

\* C24: whatever the interleaving, a call that has returned has returned
\* what available_courses returns for its arguments when it runs alone,
\* and no step changes the catalog (its course records and their groups
\* included) or the completed set object a caller passed in.
Thm_C24 ==
  /\ [](\A p \in Calls :
          procs[p].pc = "done" =>
            procs[p].result = available_courses(catalog, procs[p].arg))
  /\ [][/\ catalog' = catalog
        /\ \A p \in Calls : procs'[p].arg = procs[p].arg]_vars

\* One call has returned CMPSC 132, MATH 140 and MATH 141 for a completed
\* CMPSC 131 while the other, called with nothing completed, is in the
\* middle of its second pass over the same catalog.
Wit_C24 ==
  /\ catalog = ScenarioCatalog
  /\ procs[1].arg = {Raw131}
  /\ procs[1].pc = "done"
  /\ CodesOf(procs[1].result) = {CMPSC132, MATH140, MATH141}
  /\ procs[2].arg = {}
  /\ procs[2].pc = "for"
  /\ procs[2].idx = 3
  /\ procs[2].planned = {CMPSC131, MATH140}

(* ------------------------------------------------------------------ *)
(* available_courses under every visiting order of the catalog         *)
(* ------------------------------------------------------------------ *)

\* The dicts with the items of cat in any insertion order.
RECURSIVE Orderings(_)
Orderings(cat) ==
  IF cat = << >> THEN { << >> }
  ELSE UNION { { << cat[i] >> \o rest :
                   rest \in Orderings(Restrict(cat, (1..Len(cat)) \ {i})) } :
               i \in 1..Len(cat) }

\* A chain of co-requisites: each course needs to be taken with the next.
ChainCatalog ==
  << Course(CMPSC131, NameOf(CMPSC131), << >>, << {CMPSC132} >>),
     Course(CMPSC132, NameOf(CMPSC132), << >>, << {MATH140} >>),
     Course(MATH140,  NameOf(MATH140),  << >>, << {MATH141} >>),
     Course(MATH141,  NameOf(MATH141),  << >>, << >>) >>

OrderedCatalogs ==
  UNION { Orderings(cat) :
            cat \in { ScenarioCatalog, CycleCatalog, GroupsCatalog,
                      ChainCatalog } }

InitOrder ==
  /\ catalog \in OrderedCatalogs
  /\ completed_in \in CompletedInputs
  /\ completed = {}
  /\ planned = {}
  /\ added_any = FALSE
  /\ idx = 0
  /\ passes = 0
  /\ pass_start = {}
  /\ result = << >>
  /\ pc = "call"
  /\ IdleStr /\ IdleTake /\ IdleFind /\ IdleGraph
  /\ IdleLate

SpecOrder == InitOrder /\ [][Next]_vars

\* The same dict content inserted in ascending code order.
InCodeOrder(cat) == SortedByCode(cat, CatalogCodes(cat))

\* The number of passes the while loop makes, entered with the given
\* planned set.
RECURSIVE count_passes(_, _, _)
count_passes(cat, done, plan) ==
  LET st == run_pass(cat, done, [ planned |-> plan, added_any |-> FALSE ], 1) IN
    IF LoopStops(st.added_any) THEN 1
    ELSE 1 + count_passes(cat, done, st.planned)

\* C26: for a catalog content and a completed set, the planned set the loop
\* ends with and the list returned are those obtained when the same courses
\* are visited in ascending code order, whatever order the catalog holds
\* them in (groups are sets: the order of their members plays no part).
Thm_C26 ==
  pc = "done" =>
    /\ result = available_courses(InCodeOrder(catalog), completed_in)
    /\ planned = CodesOf(available_courses(InCodeOrder(catalog), completed_in))

\* The co-requisite chain visited from its free end: one pass adds the four
\* courses and a second adds none, where in ascending code order four
\* passes add one course each and a fifth adds none; the result is the same
\* four courses.
Wit_C26 ==
  /\ pc = "done"
  /\ catalog = Reverse(ChainCatalog)
  /\ completed_in = {}
  /\ passes = 2
  /\ InCodeOrder(catalog) # catalog
  /\ count_passes(InCodeOrder(catalog), {}, {}) = 5
  /\ CodesOf(result) = {CMPSC131, CMPSC132, MATH140, MATH141}

\* The (from, to, label) triples of an edge list.
EdgeTriples(es) ==
  { << es[i].from, es[i].to, es[i].label >> : i \in 1..Len(es) }

OtherOrder(order) == IF order = "asc" THEN "desc" ELSE "asc"

\* C27: the node set and the (from, to, label) edge set build_prereq_graph
\* returns for a catalog, root and max_depth are those it returns when the
\* members of the requirement groups are visited in the other order.
Orig_C27 ==
  pc = "prereq_built" =>
    LET other == build_prereq_graph(catalog, root, completed_in, available,
                                    max_depth, OtherOrder(member_order))
    IN  /\ NodeIds(nodes) = NodeIds(other.nodes)
        /\ EdgeTriples(edges) = EdgeTriples(other.edges)

\* The requirement entries of a catalog: one << from, to, label, i, g, m >>
\* per course i, group g of the prerequisite or co-requisite groups and
\* member m, from being the normalized member and to the normalized code of
\* the course, which the member points to.
GroupEntries(cat, i, groups, label) ==
  UNION { { << normalize_code(m), normalize_code(cat[i].code), label,
               i, g, m >> : m \in groups[g] } : g \in 1..Len(groups) }

EntrySet(cat) ==
  UNION { GroupEntries(cat, i, cat[i].prereq_groups, "prereq")
            \cup GroupEntries(cat, i, cat[i].concurrent_groups, "concurrent") :
          i \in 1..Len(cat) }

\* The codes reachable from S by following at most k entries.
RECURSIVE ReachWithin(_, _, _)
ReachWithin(entries, S, k) ==
  IF k = 0 THEN S
  ELSE LET near == ReachWithin(entries, S, k - 1)
       IN  near \cup { en[2] : en \in { x \in entries : x[1] \in near } }

\* C28: the nodes of the future graph are the codes within max_depth
\* requirement-to-dependent edges of completed and available, and its edges
\* are the adjacency entries that leave a code at distance less than
\* max_depth, each of them once.
Thm_C28 ==
  pc = "future_built" =>
    LET entries == EntrySet(catalog)
        start   == NormSet(completed_in) \cup NormSet(available)
        within  == ReachWithin(entries, start, max_depth)
        inner   == IF max_depth = 0 THEN {}
                   ELSE ReachWithin(entries, start, max_depth - 1)
        triples == { << en[1], en[2], en[3] >> : en \in entries }
    IN  /\ NodeIds(nodes) = within
        /\ \A t \in triples \cup EdgeTriples(edges) :
             Cardinality({ i \in 1..Len(edges) :
                             << edges[i].from, edges[i].to, edges[i].label >>
                               = t })
               = IF t[1] \in inner
                 THEN Cardinality({ en \in entries :
                                      << en[1], en[2], en[3] >> = t })
                 ELSE 0

\* A future graph of depth 2 from a completed CMPSC 132: MATH 141 is two
\* edges away and is a node, but the edge that leaves it is not in the
\* graph, and CMPSC 132, also a dependent of MATH 141, is not reached again.
Wit_C28 ==
  /\ pc = "future_built"
  /\ max_depth = 2
  /\ completed_in = {CMPSC132}
  /\ available = {}
  /\ Len(nodes) = 3
  /\ Len(edges) = 2
  /\ HasEdge(CMPSC132, CMPSC131)
  /\ \E i \in 1..Len(edges) :
       edges[i].from = CMPSC131 /\ edges[i].to = MATH141
  /\ \E en \in EntrySet(catalog) : en[1] = MATH141
  /\ ~ \E i \in 1..Len(edges) : edges[i].from = MATH141

====
